---- MODULE Spec2Model ----
(***************************************************************************)
(* State-machine model of the doro-skycam-core weather / sky-image         *)
(* pipeline: the forecast composer (generate_forecast.py), the weather     *)
(* store and its updaters (weather_station_receiver.py), the local sensor  *)
(* reader (fetch_local_weather.py) and the FTP image receiver              *)
(* (skywatch_ftp_receiver.py).                                             *)
(*                                                                         *)
(* Conventions.                                                            *)
(*  - A Python number is held in fixed point with one decimal place:       *)
(*    Dec(9, 5) is 9.5 and Dec(20, 0) is 20.                               *)
(*  - A JSON / Python value is a tagged tuple: None is <<>>, a number is   *)
(*    <<"num", n>>, a string is <<"str", s>>, an ISO-8601 timestamp string *)
(*    is <<"iso", seconds, utc-offset>>.                                   *)
(*  - A Python dict is a function whose DOMAIN is the set of its keys.     *)
(***************************************************************************)
EXTENDS Integers, Sequences, FiniteSets, TLC

VARIABLES
    \* ---- forecast composer (generate_forecast.py) ----
    online_data,      \* run_fetcher("fetch_online_weather.py")
    local_data,       \* run_fetcher("fetch_local_weather.py")
    days_since_new_moon, \* (now - 2000-01-06 18:14 UTC).days
    current_weather,  \* generate_combined_forecast's local of that name
    outcome,          \* "pending" | "returned" | "raised"
    forecast,         \* the document generate_combined_forecast returned
    \* ---- weather store (weather_station_receiver.py, fetch_local_weather.py) ----
    now,              \* datetime.now(timezone.utc), in seconds
    weather_file,     \* /srv/doro_lab_projects/data/weather/current.json
    raw_result,       \* fetch_local_weather.py: raw_result of the run that just ended
    \* ---- two concurrent callers of update_from_json / update_from_file ----
    upc,              \* per caller: "idle" | "read" | "done"
    urequest,         \* per caller: the call it makes
    ucurrent,         \* per caller: its local `current`
    ureturned,        \* per caller: what its call returned
    \* ---- image pipeline (skywatch_ftp_receiver.py, skywatch_inbox_ingest.py) ----
    archive,          \* archive/YYYY/MM/DD/<name>
    gallery,          \* images/<name>
    latest,           \* sky_latest_web.jpg
    status,           \* skywatch_status.json
    forecast_file,    \* forecast.json, as the receiver reads and writes it
    inbox,            \* inbox/<name>, with modification times
    ftp_log,          \* the last record the receiver logged
    \* ---- one payload taken through the three normalizers ----
    payload,          \* the <<key, value>> items of the payload, in order
    readings,         \* per ingestion path: what its normalizer made of the payload
    \* ---- a writer of the image pipeline's files, step by step, and a reader ----
    wpc,              \* number of file operations the writer has completed; 0: not running
    wjob,             \* the run under way: program, image name and size, peer
    seen,             \* what the reader read last: the file and its content
    \* ---- the HTTP intake of the weather station receiver ----
    response,         \* what WeatherHandler.do_POST sent for the last request
    \* ---- FTP transfers in flight ----
    incoming,         \* the uploaded files in the FTP root, by name: size in bytes
    transfers,        \* per peer: how far its transfer is, the name and size it sends
    \* ---- a metadata merge into forecast.json, read and write apart ----
    merging           \* the merge under way: its position, the document it read, its data

composer_vars ==
    <<online_data, local_data, days_since_new_moon, current_weather, outcome, forecast>>

store_vars == <<now, weather_file, raw_result>>

race_vars == <<upc, urequest, ucurrent, ureturned>>

ingest_vars == <<archive, gallery, latest, status, forecast_file, inbox, ftp_log>>

normalize_vars == <<payload, readings>>

replace_vars == <<wpc, wjob, seen>>

service_vars == <<response, incoming, transfers, merging>>

vars ==
    <<composer_vars, store_vars, race_vars, ingest_vars, normalize_vars, replace_vars,
      service_vars>>

(***************************************************************************)
(* Values                                                                  *)
(***************************************************************************)
Dec(units, tenths) == units * 10 + tenths

None == <<>>
Num(n) == <<"num", n>>
Str(s) == <<"str", s>>
IsNum(v) == Len(v) = 2 /\ v[1] = "num"
NumOf(v) == v[2]

\* dict.get(key, default)
Get(d, k, default) == IF k \in DOMAIN d THEN d[k] ELSE default

\* truthiness of dict.get("ok")
Ok(d) == Get(d, "ok", FALSE)

Max(a, b) == IF a >= b THEN a ELSE b
Min(a, b) == IF a <= b THEN a ELSE b

\* round(a / b) for a >= 0, b > 0
RoundDiv(a, b) == (2 * a + b) \div (2 * b)

\* what generate_combined_forecast leaves when an exception propagates out of it
NoDocument == [exception |-> "TypeError"]

(***************************************************************************)
(* FusionEngine: merge_weather_sources                                     *)
(***************************************************************************)
LocalPreferredKeys ==
    {"temperature_c", "humidity_pct", "pressure_hpa", "dewpoint_c",
     "wind_speed_kmh", "wind_direction_deg"}

OnlinePreferredKeys == {"cloud_cover_pct", "visibility_km", "conditions"}

MergedKeys == LocalPreferredKeys \cup OnlinePreferredKeys

\* the dict literal merge_weather_sources starts from
MergedInitial ==
    [k \in MergedKeys |-> IF k = "conditions" THEN Str("Unknown") ELSE None]

\* mutant: the local block is skipped, so online fills every field
MergeLocalSkipped(merged, local) == merged

\* first block: local values for the direct measurements
MergeLocal(merged, local) ==
    IF Ok(local) /\ "current" \in DOMAIN local
    THEN [k \in MergedKeys |->
            IF /\ k \in LocalPreferredKeys
               /\ k \in DOMAIN local.current
               /\ local.current[k] # None
            THEN local.current[k]
            ELSE merged[k]]
    ELSE merged

\* second block, first loop: online cloud cover / visibility / conditions
MergeOnlinePreferred(merged, online) ==
    [k \in MergedKeys |->
        IF /\ k \in OnlinePreferredKeys
           /\ k \in DOMAIN online.current
           /\ (merged[k] = None \/ k \in OnlinePreferredKeys)
        THEN online.current[k]
        ELSE merged[k]]

\* second block, second loop: fill what is still None from online
MergeOnlineFill(merged, online) ==
    [k \in MergedKeys |->
        IF merged[k] = None /\ k \in DOMAIN online.current
        THEN online.current[k]
        ELSE merged[k]]

MergeOnline(merged, online) ==
    IF Ok(online) /\ "current" \in DOMAIN online
    THEN MergeOnlineFill(MergeOnlinePreferred(merged, online), online)
    ELSE merged

merge_weather_sources(online, local) ==
    MergeOnline(MergeLocal(MergedInitial, local), online)

\* The provenance entries the fused record carries: the returned dict holds the
\* nine value keys of MergedInitial and no field -> channel mapping.
per_field_provenance(merged) ==
    IF "per_field_provenance" \in DOMAIN merged
    THEN merged["per_field_provenance"]
    ELSE [k \in {} |-> "none"]

(***************************************************************************)
(* AstronomyCalculator: calculate_basic_astronomy                          *)
(***************************************************************************)
\* lunar_month = 29.53059 days, held in units of 1e-5 day
LunarMonth == 2953059

\* <<q, r>> with a * b = q * c + r and 0 <= r < c, for 0 <= b < c, without
\* forming the product a * b
RECURSIVE MulDiv(_, _, _)
MulDiv(a, b, c) ==
    IF a = 0 THEN <<0, 0>>
    ELSE LET h  == MulDiv(a \div 2, b, c)
             r2 == 2 * h[2] + (IF a % 2 = 1 THEN b ELSE 0)
         IN  <<(2 * h[1]) + (r2 \div c), r2 % c>>

\* round(a * b / c)
MulDivRound(a, b, c) ==
    LET qr == MulDiv(a, b, c)
    IN  qr[1] + (IF 2 * qr[2] >= c THEN 1 ELSE 0)

\* (days_since_new_moon % lunar_month), in units of 1e-5 day
MoonAge(days) == (days * 100000) % LunarMonth

phase_names ==
    <<"New Moon", "Waxing Crescent", "First Quarter", "Waxing Gibbous",
      "Full Moon", "Waning Gibbous", "Last Quarter", "Waning Crescent">>

\* phase_names[int(moon_phase_float * 8) % 8]
MoonPhaseName(days) == phase_names[(((8 * MoonAge(days)) \div LunarMonth) % 8) + 1]

\* abs(0.5 - f) * 200 if f <= 0.5 else (1 - f) * 200, clamped to [0, 100],
\* rounded to one decimal; f = MoonAge / LunarMonth
MoonIllumination(days) ==
    LET r   == MoonAge(days)
        raw == IF 2 * r <= LunarMonth
               THEN MulDivRound(1000, LunarMonth - 2 * r, LunarMonth)
               ELSE MulDivRound(2000, LunarMonth - r, LunarMonth)
    IN  Max(0, Min(Dec(100, 0), raw))

\* the fields of the astronomy dict the composer reads or publishes (the sun,
\* moon-rise and twilight entries are fixed clock times of the current date)
calculate_basic_astronomy(days) ==
    [moon_phase |-> MoonPhaseName(days),
     moon_illumination_pct |-> MoonIllumination(days)]

(***************************************************************************)
(* WindowScorer: calculate_observation_windows                             *)
(***************************************************************************)
\* A forecast timestamp "YYYY-MM-DD HH:MM:SS" is <<"dt", day, hour, minute>>,
\* day counted from the current UTC date; fromisoformat gives the minute
FromIsoformat(ts) == (ts[2] * 24 + ts[3]) * 60 + ts[4]

\* now.replace(hour=h, minute=m, ...) + timedelta(days=d), as a minute
At(d, h, m) == (d * 24 + h) * 60 + m

periods ==
    << [name |-> "Tonight",          start |-> At(0, 18, 0),  end |-> At(0, 23, 0)],
       [name |-> "Late Night",       start |-> At(0, 23, 30), end |-> At(1, 5, 0)],
       [name |-> "Tomorrow Evening", start |-> At(1, 18, 0),  end |-> At(1, 23, 30)] >>

PeriodForecasts(forecast48, period) ==
    SelectSeq(forecast48,
              LAMBDA f : /\ period.start <= FromIsoformat(f.timestamp)
                         /\ FromIsoformat(f.timestamp) <= period.end)

RECURSIVE SumClouds(_)
SumClouds(fs) ==
    IF fs = <<>> THEN 0 ELSE fs[1].cloud_cover_pct + SumClouds(Tail(fs))

\* mutant: the cloud-cover thresholds are inclusive (<= instead of <)
BaseScoreInclusive(sum, n) ==
    IF sum <= Dec(20, 0) * n THEN
        [quality |-> "excellent", rating |-> Dec(9, 5),
         targets |-> <<"Faint galaxies", "Nebulae", "Star clusters", "Deep-sky imaging">>]
    ELSE IF sum <= Dec(40, 0) * n THEN
        [quality |-> "good", rating |-> Dec(7, 5),
         targets |-> <<"Planets", "Bright deep-sky objects", "Moon features">>]
    ELSE IF sum <= Dec(60, 0) * n THEN
        [quality |-> "moderate", rating |-> Dec(5, 0),
         targets |-> <<"Planets", "Moon", "Bright stars">>]
    ELSE
        [quality |-> "poor", rating |-> Dec(3, 0),
         targets |-> <<"Not recommended for observation">>]

\* quality / rating / targets from the average cloud cover sum / n
BaseScore(sum, n) ==
    IF sum < Dec(20, 0) * n THEN
        [quality |-> "excellent", rating |-> Dec(9, 5),
         targets |-> <<"Faint galaxies", "Nebulae", "Star clusters", "Deep-sky imaging">>]
    ELSE IF sum < Dec(40, 0) * n THEN
        [quality |-> "good", rating |-> Dec(7, 5),
         targets |-> <<"Planets", "Bright deep-sky objects", "Moon features">>]
    ELSE IF sum < Dec(60, 0) * n THEN
        [quality |-> "moderate", rating |-> Dec(5, 0),
         targets |-> <<"Planets", "Moon", "Bright stars">>]
    ELSE
        [quality |-> "poor", rating |-> Dec(3, 0),
         targets |-> <<"Not recommended for observation">>]

MoonPenalty(moon_illumination) ==
    IF moon_illumination > Dec(80, 0) THEN [interference |-> "high", delta |-> Dec(1, 5)]
    ELSE IF moon_illumination > Dec(40, 0) THEN [interference |-> "moderate", delta |-> Dec(0, 5)]
    ELSE [interference |-> "minimal", delta |-> 0]

\* rating = max(0, min(10, rating))
ClampRating(rating) == Max(0, Min(Dec(10, 0), rating))

ScoreWindow(period, fs, astronomy) ==
    LET base == BaseScore(SumClouds(fs), Len(fs))
        moon == MoonPenalty(Get(astronomy, "moon_illumination_pct", Dec(50, 0)))
    IN  [period |-> period.name,
         start |-> period.start,
         end |-> period.end,
         duration_hours |-> RoundDiv((period.end - period.start) * 10, 60),
         quality |-> base.quality,
         rating |-> ClampRating(base.rating - moon.delta),
         avg_cloud_cover_pct |-> RoundDiv(SumClouds(fs), Len(fs)),
         moon_interference |-> moon.interference,
         recommended_targets |-> base.targets]

RECURSIVE ScorePeriods(_, _, _)
ScorePeriods(ps, forecast48, astronomy) ==
    IF ps = <<>> THEN <<>>
    ELSE LET fs   == PeriodForecasts(forecast48, ps[1])
             rest == ScorePeriods(Tail(ps), forecast48, astronomy)
         IN  IF fs = <<>> THEN rest
             ELSE <<ScoreWindow(ps[1], fs, astronomy)>> \o rest

calculate_observation_windows(online, local, astronomy) ==
    IF Ok(online) /\ "forecast_48h" \in DOMAIN online
    THEN ScorePeriods(periods, online.forecast_48h, astronomy)
    ELSE <<>>

(***************************************************************************)
(* WeatherStore: read_current_weather / write_weather                      *)
(***************************************************************************)
EmptyDict == [k \in {} |-> None]

\* dict.update
Update(d, e) ==
    [k \in DOMAIN d \cup DOMAIN e |-> IF k \in DOMAIN e THEN e[k] ELSE d[k]]

Put(d, k, v) == Update(d, [x \in {k} |-> v])

\* datetime.isoformat() of the aware UTC instant t, and the parse back
Iso(t) == <<"iso", t, "+00:00">>
IsoAware(s) == s[3] # ""
IsoInstant(s) == s[2]

NoFile == [exists |-> FALSE, data |-> EmptyDict]
FileOf(d) == [exists |-> TRUE, data |-> d]

read_current_weather(file) == IF file.exists THEN file.data ELSE EmptyDict

\* mutant: the timestamp is always set to the time of the write
write_weather_stamped(data, t) == FileOf(Put(data, "timestamp", Iso(t)))

\* the file after write_weather(data) at instant t
write_weather(data, t) ==
    FileOf(IF "timestamp" \notin DOMAIN data THEN Put(data, "timestamp", Iso(t)) ELSE data)

(***************************************************************************)
(* ReadingNormalizer: parse_json_weather, parse_boltwood_file,             *)
(* parse_cloudsensor_file                                                  *)
(***************************************************************************)
\* A text (a str, or a field of a file) is <<"inttext", n>> (digits only,
\* spelling n), <<"dectext", n>> (a numeral with a decimal point) or any other
\* string <<"str", s>>.
IntText(n) == <<"inttext", n>>
DecText(n) == <<"dectext", n>>

\* float(v): a number, or a str spelling one; anything else raises
FloatOk(v) == Len(v) = 2 /\ v[1] \in {"num", "inttext", "dectext"}
Float(v) == Num(v[2])

\* int(v) of a str: digits only
IntOk(v) == Len(v) = 2 /\ v[1] \in {"num", "inttext"}

\* A JSON text is <<"garbage">> (json.loads raises JSONDecodeError) or
\* <<"json", value>>; an object is <<"object", items>>, items the sequence of
\* its <<key, value>> pairs in order; any other value here is <<"array">>.
JsonLoadsOk(text) == text[1] = "json"
JsonLoads(text) == text[2]
JsonObject(items) == <<"json", <<"object", items>>>>

\* key.lower() of the keys used here
Lower(key) ==
    CASE key = "TEMP" -> "temp"
      [] key = "Humidity" -> "humidity"
      [] OTHER -> key

field_map ==
    [temp |-> "temperature_c", temperature |-> "temperature_c",
     temp_c |-> "temperature_c", t |-> "temperature_c",
     humidity |-> "humidity_pct", rh |-> "humidity_pct",
     relative_humidity |-> "humidity_pct",
     pressure |-> "pressure_hpa", press |-> "pressure_hpa", p |-> "pressure_hpa",
     wind_speed |-> "wind_speed_kmh", wind_speed_kmh |-> "wind_speed_kmh",
     wind |-> "wind_speed_kmh",
     wind_dir |-> "wind_direction_deg", wind_direction |-> "wind_direction_deg",
     dewpoint |-> "dewpoint_c", dew_point |-> "dewpoint_c", dp |-> "dewpoint_c"]

FieldMapValues == {field_map[k] : k \in DOMAIN field_map}

\* field_map.get(key.lower(), key)
TargetKey(key) == Get(field_map, Lower(key), key)

\* the `for key, value in data.items()` loop
RECURSIVE NormalizeItems(_, _)
NormalizeItems(items, normalized) ==
    IF items = <<>> THEN normalized
    ELSE LET key   == items[1][1]
             value == items[1][2]
         IN  NormalizeItems(Tail(items),
                 IF TargetKey(key) \in FieldMapValues /\ FloatOk(value)
                 THEN Put(normalized, TargetKey(key), Float(value))
                 ELSE normalized)

\* mutant: the first alias of a field wins, later ones are ignored
RECURSIVE NormalizeItemsFirst(_, _)
NormalizeItemsFirst(items, normalized) ==
    IF items = <<>> THEN normalized
    ELSE LET key   == items[1][1]
             value == items[1][2]
         IN  NormalizeItemsFirst(Tail(items),
                 IF /\ TargetKey(key) \in FieldMapValues
                    /\ FloatOk(value)
                    /\ TargetKey(key) \notin DOMAIN normalized
                 THEN Put(normalized, TargetKey(key), Float(value))
                 ELSE normalized)

\* parse_json_weather(data); the empty dict stands for the falsy results (None,
\* also when data.items() raises on a non-object)
parse_json_weather(data) ==
    IF data[1] = "object" THEN NormalizeItems(data[2], EmptyDict) ELSE EmptyDict

\* float(parts[5]) * 3.6, exact for the multiples of 0.5 m/s used here
KmhFromMs(v) == Num((v[2] * 36) \div 10)

\* parse_boltwood_file: `parts` are the comma-separated fields, stripped
parse_boltwood_file(name, parts) ==
    IF /\ Len(parts) >= 7
       /\ FloatOk(parts[1]) /\ IntOk(parts[2]) /\ FloatOk(parts[3])
       /\ FloatOk(parts[4]) /\ FloatOk(parts[5]) /\ FloatOk(parts[6])
    THEN [temperature_c |-> Float(parts[1]),
          wind_direction_deg |-> Float(parts[2]),
          pressure_hpa |-> Float(parts[3]),
          humidity_pct |-> Float(parts[4]),
          dewpoint_c |-> Float(parts[5]),
          wind_speed_kmh |-> KmhFromMs(parts[6]),
          station_status |-> parts[7],
          station_name |-> Str("Boltwood CloudSensor"),
          source_file |-> Str(name)]
    ELSE EmptyDict

\* the key/value map parse_cloudsensor_file builds: a line is <<"kv", key,
\* value>> or <<"raw">> (no '=' in it)
RECURSIVE CloudSensorData(_)
CloudSensorData(lines) ==
    IF lines = <<>> THEN EmptyDict
    ELSE LET line == lines[Len(lines)]
             rest == CloudSensorData(SubSeq(lines, 1, Len(lines) - 1))
         IN  IF line[1] = "kv" THEN Put(rest, line[2], line[3]) ELSE rest

CloudSensorMap ==
    [temperature |-> "temperature_c", humidity |-> "humidity_pct",
     pressure |-> "pressure_hpa", wind_speed |-> "wind_speed_kmh",
     wind_direction |-> "wind_direction_deg",
     dewpoint |-> "dewpoint_c", dew_point |-> "dewpoint_c"]

\* the key read for a canonical field: 'dewpoint' before 'dew_point'
CloudSensorKeyFor(data, target) ==
    IF target = "dewpoint_c"
    THEN (IF "dewpoint" \in DOMAIN data THEN "dewpoint" ELSE "dew_point")
    ELSE CHOOSE k \in DOMAIN CloudSensorMap : CloudSensorMap[k] = target

parse_cloudsensor_file(name, lines) ==
    LET data    == CloudSensorData(lines)
        present == {CloudSensorMap[k] : k \in DOMAIN data \cap DOMAIN CloudSensorMap}
        weather == [t \in present |-> data[CloudSensorKeyFor(data, t)]]
    IN  IF present = {} \/ \E t \in present : ~FloatOk(weather[t])
        THEN EmptyDict
        ELSE Update([t \in present |-> Float(weather[t])],
                    [station_name |-> Str("AAG CloudSensor"), source_file |-> Str(name)])

(***************************************************************************)
(* Store updaters: update_from_json, update_from_file                      *)
(***************************************************************************)
\* what update_from_json / update_from_file parse out of their argument; the
\* empty dict when nothing usable was parsed
NormalizedJson(text) ==
    IF JsonLoadsOk(text) THEN parse_json_weather(JsonLoads(text)) ELSE EmptyDict

NormalizedFile(file) ==
    IF ~file.exists THEN EmptyDict
    ELSE CASE file.suffix = ".dat"  -> parse_boltwood_file(file.name, file.content)
           [] file.suffix = ".txt"  -> parse_cloudsensor_file(file.name, file.content)
           [] file.suffix = ".json" -> NormalizedJson(file.content)
           [] OTHER -> EmptyDict

\* mutant: the stored record is replaced by the new fields, not merged
StoreUpdateReplacing(file, normalized, t) ==
    IF normalized # EmptyDict
    THEN [returned |-> TRUE, file |-> write_weather(normalized, t)]
    ELSE [returned |-> FALSE, file |-> file]

\* current = read_current_weather(); current.update(normalized);
\* write_weather(current); return True -- or return False
StoreUpdate(file, normalized, t) ==
    IF normalized # EmptyDict
    THEN [returned |-> TRUE,
          file |-> write_weather(Update(read_current_weather(file), normalized), t)]
    ELSE [returned |-> FALSE, file |-> file]

update_from_json(file, json_data, t) == StoreUpdate(file, NormalizedJson(json_data), t)

update_from_file(file, path, t) == StoreUpdate(file, NormalizedFile(path), t)

(***************************************************************************)
(* Local sensor reader: fetch_local_weather.py                             *)
(***************************************************************************)
\* mutant: a reading exactly 10 minutes old already counts as stale
read_file_based_sensors_strict(file, t) ==
    IF ~file.exists THEN
        [ok |-> FALSE, error |-> Str("Sensor data file not found")]
    ELSE IF "timestamp" \in DOMAIN file.data /\ ~IsoAware(file.data["timestamp"]) THEN
        [ok |-> FALSE, error |-> Str("Read error")]
    ELSE IF /\ "timestamp" \in DOMAIN file.data
            /\ t - IsoInstant(file.data["timestamp"]) >= 600 THEN
        [ok |-> FALSE, error |-> Str("Sensor data is stale"),
         age_seconds |-> t - IsoInstant(file.data["timestamp"]),
         last_update |-> file.data["timestamp"]]
    ELSE
        [ok |-> TRUE, source |-> Str("Local Weather Station (file)"),
         data |-> file.data, read_at |-> Iso(t)]

\* freshness threshold of read_file_based_sensors, in seconds
StaleAfter == 600

read_file_based_sensors(file, t) ==
    IF ~file.exists THEN
        [ok |-> FALSE, error |-> Str("Sensor data file not found")]
    ELSE IF "timestamp" \in DOMAIN file.data /\ ~IsoAware(file.data["timestamp"]) THEN
        \* aware - naive raises TypeError, caught by `except Exception`
        [ok |-> FALSE, error |-> Str("Read error")]
    ELSE IF /\ "timestamp" \in DOMAIN file.data
            /\ t - IsoInstant(file.data["timestamp"]) > StaleAfter THEN
        [ok |-> FALSE, error |-> Str("Sensor data is stale"),
         age_seconds |-> t - IsoInstant(file.data["timestamp"]),
         last_update |-> file.data["timestamp"]]
    ELSE
        [ok |-> TRUE, source |-> Str("Local Weather Station (file)"),
         data |-> file.data, read_at |-> Iso(t)]

\* the alias lists of parse_to_standard_format, in the order they are tried
StandardAliases ==
    [temperature_c |-> <<"temperature", "temp", "temperature_c", "temp_c", "outdoor_temp">>,
     humidity_pct |-> <<"humidity", "rh", "humidity_pct", "relative_humidity">>,
     pressure_hpa |-> <<"pressure", "pressure_hpa", "barometric_pressure", "baro">>,
     wind_speed_kmh |-> <<"wind_speed", "wind", "wind_speed_kmh", "wind_kmh">>,
     wind_direction_deg |-> <<"wind_direction", "wind_dir", "wind_direction_deg">>,
     cloud_cover_pct |-> <<"cloud_cover", "clouds", "cloud_cover_pct">>,
     visibility_km |-> <<"visibility", "visibility_km">>]

\* the first alias of the list that is a key of sensor_data, "" if none is
RECURSIVE FirstPresent(_, _)
FirstPresent(aliases, sensor_data) ==
    IF aliases = <<>> THEN ""
    ELSE IF aliases[1] \in DOMAIN sensor_data THEN aliases[1]
    ELSE FirstPresent(Tail(aliases), sensor_data)

\* Python truthiness and `a or b`
Truthy(v) == v # None /\ ~(IsNum(v) /\ NumOf(v) = 0)
PyOr(a, b) == IF Truthy(a) THEN a ELSE b

\* round(dewpoint, 1) of the Magnus expression of parse_to_standard_format,
\* alpha = 17.27 tc / (237.7 + tc) + rh / 100, dewpoint = 237.7 alpha /
\* (17.27 - alpha), in exact arithmetic on the tenths (tc, rh >= 0):
\* dewpoint = 237.7 n / (17270 d - n) with d = 2377 + tc, n = 17270 tc + rh d
MagnusDewpoint(tc, rh) ==
    LET d == 2377 + tc
        n == (17270 * tc) + (rh * d)
    IN  MulDivRound(2377, n, (17270 * d) - n)

parse_to_standard_format(raw) ==
    LET sensor_data == Get(raw, "data", EmptyDict)
        found   == {c \in DOMAIN StandardAliases :
                       FirstPresent(StandardAliases[c], sensor_data) # ""}
        valueOf == [c \in found |-> sensor_data[FirstPresent(StandardAliases[c], sensor_data)]]
        hasDew  == "dewpoint" \in DOMAIN sensor_data \/ "dewpoint_c" \in DOMAIN sensor_data
        dewRaw  == PyOr(Get(sensor_data, "dewpoint", None), Get(sensor_data, "dewpoint_c", None))
        direct  == [c \in found |-> Float(valueOf[c])]
        dew     == IF hasDew THEN [dewpoint_c |-> Float(dewRaw)]
                   ELSE IF {"temperature_c", "humidity_pct"} \subseteq found
                   THEN [dewpoint_c |-> Num(MagnusDewpoint(NumOf(direct["temperature_c"]),
                                                        NumOf(direct["humidity_pct"])))]
                   ELSE EmptyDict
    IN  IF (\E c \in found : ~FloatOk(valueOf[c])) \/ (hasDew /\ ~FloatOk(dewRaw))
        THEN [raised |-> TRUE, value |-> EmptyDict]
        ELSE [raised |-> FALSE,
              value |-> [ok |-> TRUE,
                         source |-> Get(raw, "source", Str("Local Weather Station")),
                         timestamp |-> raw.read_at,
                         current |-> Update(direct, dew),
                         raw |-> sensor_data]]

\* what run_fetcher("fetch_local_weather.py") returns: the script prints the
\* standard format and exits 0, or prints raw_result (or a traceback) to
\* stderr and exits 1
RunLocalFetcher(raw) ==
    IF Ok(raw)
    THEN IF parse_to_standard_format(raw).raised
         THEN [ok |-> FALSE, error |-> Str("Traceback"), script |-> Str("fetch_local_weather.py")]
         ELSE parse_to_standard_format(raw).value
    ELSE [ok |-> FALSE, error |-> <<"stderr", raw>>, script |-> Str("fetch_local_weather.py")]

(***************************************************************************)
(* The weather store over time                                             *)
(***************************************************************************)
\* the clock stops here
MaxNow == 905

\* clock steps, in seconds
TickSteps == {300, 301}

NotFetched == [ok |-> FALSE, error |-> Str("not run")]

JsonPayloads ==
    { <<"garbage">>,
      <<"json", <<"array">>>>,
      JsonObject(<< <<"temp", Num(Dec(10, 0))>> >>),
      JsonObject(<< <<"temperature", Num(Dec(20, 0))>>, <<"humidity", Num(Dec(50, 0))>> >>),
      JsonObject(<< <<"TEMP", IntText(Dec(20, 0))>> >>),
      JsonObject(<< <<"humidity", Str("n/a")>> >>),
      JsonObject(<< <<"foo", Num(Dec(1, 0))>> >>),
      JsonObject(<< <<"temp", Num(Dec(10, 0))>>, <<"temperature", Num(Dec(20, 0))>> >>),
      JsonObject(<< <<"temp", None>>, <<"rh", Num(Dec(60, 0))>> >>) }

SensorFiles ==
    { [name |-> "gone.txt", exists |-> FALSE, suffix |-> ".txt", content |-> <<>>],
      [name |-> "w.dat", exists |-> TRUE, suffix |-> ".dat",
       content |-> <<DecText(Dec(20, 0)), IntText(Dec(23, 0)), IntText(Dec(998, 0)),
                     IntText(Dec(60, 0)), IntText(Dec(12, 0)), DecText(Dec(2, 5)), Str("OK")>>],
      [name |-> "w.dat", exists |-> TRUE, suffix |-> ".dat",
       content |-> <<DecText(Dec(20, 0)), DecText(Dec(23, 5)), IntText(Dec(998, 0)),
                     IntText(Dec(60, 0)), IntText(Dec(12, 0)), DecText(Dec(2, 5)), Str("OK")>>],
      [name |-> "w.dat", exists |-> TRUE, suffix |-> ".dat",
       content |-> <<DecText(Dec(20, 0)), IntText(Dec(23, 0))>>],
      [name |-> "w.txt", exists |-> TRUE, suffix |-> ".txt",
       content |-> << <<"kv", "temperature", IntText(Dec(10, 0))>>, <<"raw">>,
                      <<"kv", "humidity", IntText(Dec(50, 0))>> >>],
      [name |-> "w.txt", exists |-> TRUE, suffix |-> ".txt",
       content |-> << <<"kv", "temperature", IntText(Dec(10, 0))>>,
                      <<"kv", "humidity", Str("abc")>> >>],
      [name |-> "w.json", exists |-> TRUE, suffix |-> ".json",
       content |-> JsonObject(<< <<"rh", Num(Dec(60, 0))>> >>)],
      [name |-> "w.csv", exists |-> TRUE, suffix |-> ".csv", content |-> <<>>] }

\* the fetcher script of an earlier step has exited; its result is gone
FetcherGone == raw_result' = NotFetched /\ local_data' = NotFetched

\* the store's operations touch neither the composer nor the image pipeline
ComposerUntouched ==
    /\ UNCHANGED <<online_data, days_since_new_moon, current_weather, outcome, forecast>>
    /\ UNCHANGED <<race_vars, ingest_vars, normalize_vars, replace_vars, service_vars>>

Tick ==
    \E d \in TickSteps :
        /\ now + d <= MaxNow
        /\ now' = now + d
        /\ FetcherGone
        /\ ComposerUntouched
        /\ UNCHANGED weather_file

UpdateFromJson(json_data) ==
    /\ weather_file' = update_from_json(weather_file, json_data, now).file
    /\ FetcherGone
    /\ ComposerUntouched
    /\ UNCHANGED now

UpdateFromFile(path) ==
    /\ weather_file' = update_from_file(weather_file, path, now).file
    /\ FetcherGone
    /\ ComposerUntouched
    /\ UNCHANGED now

\* generate_sample_data: the record it builds, wind_direction_deg being
\* random.randint(0, 360), and write_weather of it; the other random values
\* are held at one value of their range
SampleWindDirections == {0, 360}

generate_sample_data(wind_direction, t) ==
    write_weather(
        [timestamp |-> Iso(t),
         temperature_c |-> Num(Dec(10, 0)),
         humidity_pct |-> Num(Dec(60, 0)),
         pressure_hpa |-> Num(Dec(1013, 0)),
         wind_speed_kmh |-> Num(Dec(5, 0)),
         wind_direction_deg |-> Num(Dec(wind_direction, 0)),
         dewpoint_c |-> Num(Dec(5, 0)),
         station_name |-> Str("DORO Lab Simulated Sensors"),
         note |-> Str("Generated sample data - replace with real sensor readings")], t)

GenerateSample(wind_direction) ==
    /\ weather_file' = generate_sample_data(wind_direction, now)
    /\ FetcherGone
    /\ ComposerUntouched
    /\ UNCHANGED now

\* update_simulated_weather.py: generate_realistic_weather and the write of
\* its record.  The random variation of the wind direction is given in
\* hundredths of a degree; the other variations are held at 0.
WindVariations == {-4, 0}

Clamp(lo, v, hi) == Max(lo, Min(hi, v))

generate_realistic_weather(file, wind_variation, t) ==
    LET previous   == IF file.exists THEN file.data ELSE EmptyDict
        temp       == Clamp(Dec(5, 0), NumOf(Get(previous, "temperature_c", Num(Dec(18, 0)))),
                            Dec(35, 0))
        humidity   == Clamp(Dec(20, 0), NumOf(Get(previous, "humidity_pct", Num(Dec(60, 0)))),
                            Dec(95, 0))
        pressure   == Clamp(Dec(980, 0), NumOf(Get(previous, "pressure_hpa", Num(Dec(1013, 0)))),
                            Dec(1040, 0))
        wind_speed == Clamp(0, NumOf(Get(previous, "wind_speed_kmh", Num(Dec(5, 0)))),
                            Dec(50, 0))
        wind_dir   == ((10 * NumOf(Get(previous, "wind_direction_deg", Num(Dec(180, 0)))))
                       + wind_variation) % 36000
    IN  [timestamp |-> Iso(t),
         temperature_c |-> Num(temp),
         humidity_pct |-> Num(humidity),
         pressure_hpa |-> Num(pressure),
         wind_speed_kmh |-> Num(wind_speed),
         wind_direction_deg |-> Num(RoundDiv(wind_dir, 10)),
         dewpoint_c |-> Num(MagnusDewpoint(temp, humidity)),
         station_name |-> Str("DORO Lab Simulated Sensors"),
         note |-> Str("Simulated data - replace with real sensor readings")]

SimulateWeather(wind_variation) ==
    /\ weather_file' = FileOf(generate_realistic_weather(weather_file, wind_variation, now))
    /\ FetcherGone
    /\ ComposerUntouched
    /\ UNCHANGED now

\* one run of fetch_local_weather.py under run_fetcher
LocalFetch ==
    /\ raw_result' = read_file_based_sensors(weather_file, now)
    /\ local_data' = RunLocalFetcher(read_file_based_sensors(weather_file, now))
    /\ ComposerUntouched
    /\ UNCHANGED <<now, weather_file>>

\* no caller of the store updaters is under way
Updaters == {1, 2}
NoRequest == [op |-> "none", arg |-> <<>>]
RaceIdle ==
    /\ upc = [p \in Updaters |-> "idle"]
    /\ urequest = [p \in Updaters |-> NoRequest]
    /\ ucurrent = [p \in Updaters |-> EmptyDict]
    /\ ureturned = [p \in Updaters |-> FALSE]

\* the image directories as run_ftp_server finds them on a fresh data dir
NoImage == [exists |-> FALSE, size |-> 0]
NoStatus == [last_event |-> "none"]
NoForecastFile == [exists |-> FALSE, doc |-> EmptyDict]
NothingLogged == [level |-> "INFO", msg |-> "SkyWatch FTP Receiver starting...", name |-> <<>>]
IngestIdle ==
    /\ archive = EmptyDict
    /\ gallery = EmptyDict
    /\ latest = NoImage
    /\ status = NoStatus
    /\ forecast_file = NoForecastFile
    /\ inbox = EmptyDict
    /\ ftp_log = NothingLogged

\* no payload is being normalized
NotNormalized == [pending |-> TRUE, raised |-> FALSE, value |-> EmptyDict]
NormalizeIdle ==
    /\ payload = <<>>
    /\ readings = [json |-> NotNormalized, keyvalue |-> NotNormalized, local |-> NotNormalized]

\* no step-by-step writer is running and nothing has been read
NoJob ==
    [program |-> "none", run |-> 0, upload |-> <<>>, peer |-> "closed", dir |-> <<>>,
     before |-> <<>>]
NothingSeen == [target |-> "none", content |-> <<>>, before |-> <<>>, after |-> <<>>]
ReplaceIdle ==
    /\ wpc = 0
    /\ wjob = NoJob
    /\ seen = NothingSeen

\* no request has been answered
NoResponse == [sent |-> 0, code |-> 0, ok |-> FALSE]
\* no transfer was started
NoTransfers == <<>>
\* no metadata merge is under way
NotMerging == [pc |-> "idle", file |-> <<>>, data |-> <<>>]
ServiceIdle ==
    /\ response = NoResponse
    /\ incoming = <<>>
    /\ transfers = NoTransfers
    /\ merging = NotMerging

StoreIdle ==
    /\ now = 0
    /\ weather_file = NoFile
    /\ raw_result = NotFetched

InitStore ==
    /\ StoreIdle
    /\ RaceIdle
    /\ IngestIdle
    /\ NormalizeIdle
    /\ ReplaceIdle
    /\ ServiceIdle
    /\ local_data = NotFetched
    /\ online_data = NotFetched
    /\ days_since_new_moon = 0
    /\ current_weather = MergedInitial
    /\ outcome = "pending"
    /\ forecast = NoDocument

NextStore ==
    \/ Tick
    \/ \E json_data \in JsonPayloads : UpdateFromJson(json_data)
    \/ \E path \in SensorFiles : UpdateFromFile(path)
    \/ LocalFetch

SpecStore == InitStore /\ [][NextStore]_vars

\* every writer of the weather file at one instant: the update paths with a
\* POSTed humidity above 100 among the payloads, the sample generator and
\* the simulated station
RangePayloads ==
    JsonPayloads \cup { JsonObject(<< <<"humidity", Num(Dec(150, 0))>> >>) }

NextWriters ==
    \/ \E json_data \in RangePayloads : UpdateFromJson(json_data)
    \/ \E path \in SensorFiles : UpdateFromFile(path)
    \/ \E wind_direction \in SampleWindDirections : GenerateSample(wind_direction)
    \/ \E wind_variation \in WindVariations : SimulateWeather(wind_variation)
    \/ LocalFetch

SpecWriters == InitStore /\ [][NextWriters]_vars

(***************************************************************************)
(* The HTTP intake: WeatherHandler.do_POST.  A request is its path, its    *)
(* Content-Length header ("exact": the length of the body, "missing", or   *)
(* "abc": not a number), whether its body is UTF-8, and the body's text.   *)
(***************************************************************************)

\* self.send_response(code) and the JSON body written after it
Sent(code, ok) == [sent |-> 1, code |-> code, ok |-> ok]

\* int(...) or .decode('utf-8') raised: the exception leaves do_POST and the
\* server closes the connection without a response
Unanswered == [sent |-> 0, code |-> 0, ok |-> FALSE]

\* self.rfile.read(content_length).decode('utf-8'); no header reads no byte
BodyRead(request) ==
    IF request.content_length = "missing" THEN <<"garbage">> ELSE request.body

DecodeRaises(request) ==
    request.content_length = "exact" /\ ~request.utf8

do_POST(file, request, t) ==
    IF request.path = "/weather"
    THEN IF request.content_length = "abc" \/ DecodeRaises(request)
         THEN [file |-> file, response |-> Unanswered]
         ELSE LET updated == update_from_json(file, BodyRead(request), t)
              IN  IF updated.returned
                  THEN [file |-> updated.file, response |-> Sent(200, TRUE)]
                  ELSE [file |-> updated.file, response |-> Sent(400, FALSE)]
    ELSE [file |-> file, response |-> Sent(404, FALSE)]

Paths == {"/weather", "/other"}
ContentLengths == {"exact", "missing", "abc"}

Requests ==
    [path : Paths, content_length : ContentLengths, utf8 : BOOLEAN, body : JsonPayloads]

\* one POST handled by the server
Post(request) ==
    LET handled == do_POST(weather_file, request, now)
    IN  /\ weather_file' = handled.file
        /\ response' = handled.response
        /\ FetcherGone
        /\ UNCHANGED <<online_data, days_since_new_moon, current_weather, outcome, forecast>>
        /\ UNCHANGED <<now, race_vars, ingest_vars, normalize_vars, replace_vars>>
        /\ UNCHANGED <<incoming, transfers, merging>>

NextHttp ==
    \/ \E request \in Requests : Post(request)
    \/ Tick

SpecHttp == InitStore /\ [][NextHttp]_vars

(***************************************************************************)
(* Two concurrent callers of the store updaters (the HTTP handler's        *)
(* update_from_json and a command-line update_from_json/update_from_file). *)
(* Each call reads current.json in one step and writes it in a later one.  *)
(***************************************************************************)
RaceRequests ==
    { [op |-> "update_from_json", arg |-> j] :
        j \in { <<"garbage">>,
                JsonObject(<< <<"temp", Num(Dec(10, 0))>> >>),
                JsonObject(<< <<"temp", None>>, <<"rh", Num(Dec(60, 0))>> >>),
                JsonObject(<< <<"temperature", Num(Dec(20, 0))>>,
                              <<"humidity", Num(Dec(50, 0))>> >>) } }
    \cup
    { [op |-> "update_from_file", arg |-> f] :
        f \in {g \in SensorFiles : g.suffix = ".dat" /\ NormalizedFile(g) # EmptyDict} }

\* what the call parses out of its argument
Normalized(req) ==
    IF req.op = "update_from_json" THEN NormalizedJson(req.arg) ELSE NormalizedFile(req.arg)

\* the call up to and including `current = read_current_weather()`; with
\* nothing usable parsed it returns False at once
ReadCurrent(p, req) ==
    /\ upc[p] = "idle"
    /\ urequest' = [urequest EXCEPT ![p] = req]
    /\ IF Normalized(req) # EmptyDict
       THEN /\ upc' = [upc EXCEPT ![p] = "read"]
            /\ ucurrent' = [ucurrent EXCEPT ![p] = read_current_weather(weather_file)]
       ELSE /\ upc' = [upc EXCEPT ![p] = "done"]
            /\ UNCHANGED ucurrent
    /\ UNCHANGED <<ureturned, weather_file, now, raw_result>>
    /\ UNCHANGED <<composer_vars, ingest_vars, normalize_vars, replace_vars, service_vars>>

\* `current.update(normalized); write_weather(current); return True`
WriteWeather(p) ==
    /\ upc[p] = "read"
    /\ weather_file' = write_weather(Update(ucurrent[p], Normalized(urequest[p])), now)
    /\ upc' = [upc EXCEPT ![p] = "done"]
    /\ ureturned' = [ureturned EXCEPT ![p] = TRUE]
    /\ UNCHANGED <<urequest, ucurrent, now, raw_result>>
    /\ UNCHANGED <<composer_vars, ingest_vars, normalize_vars, replace_vars, service_vars>>

\* the store the two callers find: absent, or holding an earlier reading
InitRace ==
    /\ now \in TickSteps
    /\ weather_file \in {NoFile, write_weather([pressure_hpa |-> Num(Dec(1013, 0))], 0)}
    /\ raw_result = NotFetched
    /\ RaceIdle
    /\ IngestIdle
    /\ NormalizeIdle
    /\ ReplaceIdle
    /\ ServiceIdle
    /\ local_data = NotFetched
    /\ online_data = NotFetched
    /\ days_since_new_moon = 0
    /\ current_weather = MergedInitial
    /\ outcome = "pending"
    /\ forecast = NoDocument

NextRace ==
    \/ \E p \in Updaters : \E req \in RaceRequests : ReadCurrent(p, req)
    \/ \E p \in Updaters : WriteWeather(p)

SpecRace == InitRace /\ [][NextRace]_vars

(***************************************************************************)
(* Image pipeline: SkyWatchFTPHandler (skywatch_ftp_receiver.py) and       *)
(* ingest_latest (skywatch_inbox_ingest.py).                               *)
(*                                                                         *)
(* A file name is <<stem, extension>>.  An image file is held as its size  *)
(* in bytes.  `disk` is the record of the files the pipeline writes.       *)
(***************************************************************************)
EndsWith(filename, suffixes) == filename[2] \in suffixes

\* datetime.now(timezone.utc).strftime("%Y/%m/%d"), as a day number
UtcDate(t) == t \div 86400

Disk ==
    [archive |-> archive, gallery |-> gallery, latest |-> latest, status |-> status,
     forecast_file |-> forecast_file, ftp_log |-> ftp_log]

Logged(disk, level, msg, name) ==
    [disk EXCEPT !.ftp_log = [level |-> level, msg |-> msg, name |-> name]]

\* self.socket.getpeername() of a control connection that is gone raises, and
\* _update_status then writes nothing
NoPeer == "closed"

_update_status(disk, event_type, size, filename, peer, t) ==
    IF peer = NoPeer THEN disk
    ELSE [disk EXCEPT !.status =
             [last_event |-> event_type, timestamp |-> Iso(t),
              last_filename |-> filename, last_size_bytes |-> size,
              connection |-> "active", receiver_address |-> peer]]

\* mutant: the upload is not checked before it is archived
_process_image_unchecked(disk, upload, peer, t) ==
    Logged(_update_status(
               [disk EXCEPT !.archive = Put(@, <<UtcDate(t), upload.name>>, upload.size),
                            !.gallery = Put(@, upload.name, upload.size)],
               "image_received", upload.size, upload.name, peer, t),
           "INFO", "Image archived", upload.name)

_process_image_complete(disk, upload, peer, t) ==
    IF ~upload.exists \/ upload.size = 0
    THEN Logged(disk, "WARNING", "Skipping 0-byte or missing file", upload.name)
    ELSE Logged(_update_status(
                    [disk EXCEPT !.archive = Put(@, <<UtcDate(t), upload.name>>, upload.size),
                                 !.gallery = Put(@, upload.name, upload.size)],
                    "image_received", upload.size, upload.name, peer, t),
                "INFO", "Image archived", upload.name)

\* the dict json.loads builds from an object's items: a later key wins
RECURSIVE ItemsDict(_)
ItemsDict(items) ==
    IF items = <<>> THEN EmptyDict
    ELSE Update([k \in {items[1][1]} |-> items[1][2]], ItemsDict(Tail(items)))

\* forecast.json as _merge_skywatch_data starts from it
ForecastRead(file) ==
    IF file.exists THEN file.doc ELSE [current |-> EmptyDict, data_sources |-> EmptyDict]

_merge_skywatch_data(disk, skywatch_data, t) ==
    LET fc      == ForecastRead(disk.forecast_file)
        data    == IF skywatch_data[1] = "object" THEN ItemsDict(skywatch_data[2]) ELSE EmptyDict
        hasTemp == "outdoor_temp" \in DOMAIN data
        hasHum  == "humidity" \in DOMAIN data
        temp    == IF hasTemp THEN [temperature_c |-> Float(data["outdoor_temp"])] ELSE EmptyDict
        hum     == IF hasHum THEN [humidity_pct |-> Float(data["humidity"])] ELSE EmptyDict
        sources == Put(Get(fc, "data_sources", EmptyDict), "skywatch",
                       [available |-> TRUE, source |-> Str("SkyWatch Camera"),
                        last_update |-> Iso(t)])
    IN  IF \/ hasTemp /\ ~FloatOk(data["outdoor_temp"])
           \/ hasHum /\ ~FloatOk(data["humidity"])
           \/ "current" \notin DOMAIN fc
        THEN Logged(disk, "ERROR", "Error merging SkyWatch data", <<>>)
        ELSE Logged([disk EXCEPT !.forecast_file =
                        [exists |-> TRUE,
                         doc |-> Update(fc, [current |-> Update(Update(fc["current"], temp), hum),
                                             data_sources |-> sources,
                                             timestamp |-> Iso(t)])]],
                    "INFO", "Forecast updated with SkyWatch data", <<>>)

_process_metadata(disk, upload, t) ==
    IF upload.exists /\ upload.size > 0
    THEN IF JsonLoadsOk(upload.text)
         THEN Logged(_merge_skywatch_data(disk, JsonLoads(upload.text), t),
                     "INFO", "Metadata processed", upload.name)
         ELSE Logged(disk, "ERROR", "Error processing metadata", upload.name)
    ELSE disk

on_file_received(disk, upload, peer, t) ==
    LET started == Logged(disk, "INFO", "File upload complete", upload.name)
    IN  IF EndsWith(upload.name, {".jpg", ".jpeg"})
        THEN _process_image_complete(started, upload, peer, t)
        ELSE IF EndsWith(upload.name, {".json"})
        THEN _process_metadata(started, upload, t)
        ELSE started

\* list(path.glob("*.jpg")) + list(path.glob("*.jpeg")), and the file of
\* greatest st_mtime; of two files of equal st_mtime, max() keeps the earlier
\* one of the list.  (The drop directory here holds at most one file of each
\* extension.)
InboxImages(dir) == {n \in DOMAIN dir : EndsWith(n, {".jpg", ".jpeg"})}

_newest_jpg(dir) ==
    CHOOSE n \in InboxImages(dir) :
        /\ \A m \in InboxImages(dir) : dir[m].mtime <= dir[n].mtime
        /\ \A m \in InboxImages(dir) :
             (dir[m].mtime = dir[n].mtime /\ m # n) => n[2] = ".jpg"

ingest_latest(disk, dir, t) ==
    IF InboxImages(dir) = {} THEN [returned |-> FALSE, disk |-> disk]
    ELSE LET newest == _newest_jpg(dir)
             size   == dir[newest].size
         IN  [returned |-> TRUE,
              disk |-> [disk EXCEPT
                          !.latest = [exists |-> TRUE, size |-> size],
                          !.gallery = Put(@, newest, size),
                          !.archive = Put(@, <<UtcDate(t), newest>>, size),
                          !.status = [last_event |-> "image_received", timestamp |-> Iso(t),
                                      last_filename |-> newest, last_size_bytes |-> size,
                                      connection |-> "active"]]]

\* sizes, in bytes, of the files uploaded to the receiver and of the files
\* stored in the drop directory
UploadSizes == {0, 1}
InboxSizes == {2}

UploadNames == {<<"a", ".jpg">>}
InboxNames == {<<"a", ".jpg">>, <<"b", ".jpeg">>}

\* the instants at which the pipeline is observed: two consecutive UTC days
IngestInstants == {0, 86400}

Peers == {"10.0.0.5:40000", NoPeer}

\* the file a completed transfer names, as the handler finds it
ImageUploads ==
    { [name |-> n, exists |-> TRUE, size |-> z, text |-> <<"garbage">>] :
        n \in UploadNames, z \in UploadSizes }
    \cup
    { [name |-> n, exists |-> FALSE, size |-> 0, text |-> <<"garbage">>] :
        n \in UploadNames }

MetadataUploads ==
    { [name |-> <<"m", ".json">>, exists |-> TRUE, size |-> 1, text |-> x] :
        x \in { <<"garbage">>,
                JsonObject(<< <<"outdoor_temp", DecText(Dec(7, 0))>>,
                              <<"humidity", Num(Dec(50, 0))>> >>),
                JsonObject(<< <<"outdoor_temp", Num(Dec(7, 0))>>,
                              <<"humidity", Str("abc")>> >>) } }
    \cup
    { [name |-> <<"m", ".json">>, exists |-> e, size |-> 0, text |-> <<"garbage">>] :
        e \in BOOLEAN }

OtherUploads ==
    { [name |-> n, exists |-> TRUE, size |-> 1, text |-> <<"garbage">>] :
        n \in {<<"c", ".JPG">>} }

Uploads == ImageUploads \cup MetadataUploads \cup OtherUploads

\* everything outside the image pipeline
PipelineOnly ==
    /\ UNCHANGED <<composer_vars, race_vars, normalize_vars, replace_vars, service_vars>>
    /\ UNCHANGED <<weather_file, raw_result>>

\* a transfer completes and the FTP server calls on_file_received
FileReceived(upload, peer) ==
    LET after == on_file_received(Disk, upload, peer, now)
    IN  /\ archive' = after.archive
        /\ gallery' = after.gallery
        /\ latest' = after.latest
        /\ status' = after.status
        /\ forecast_file' = after.forecast_file
        /\ ftp_log' = after.ftp_log
        /\ UNCHANGED <<inbox, now>>
        /\ PipelineOnly

\* vsftpd stores an upload in the drop directory
InboxDrop(name, size) ==
    /\ inbox' = Put(inbox, name, [size |-> size, mtime |-> now])
    /\ UNCHANGED <<archive, gallery, latest, status, forecast_file, ftp_log, now>>
    /\ PipelineOnly

\* one run of skywatch_inbox_ingest.py
IngestLatest ==
    LET after == ingest_latest(Disk, inbox, now).disk
    IN  /\ archive' = after.archive
        /\ gallery' = after.gallery
        /\ latest' = after.latest
        /\ status' = after.status
        /\ UNCHANGED <<forecast_file, ftp_log, inbox, now>>
        /\ PipelineOnly

\* the UTC date changes
Midnight ==
    /\ now + 86400 \in IngestInstants
    /\ now' = now + 86400
    /\ UNCHANGED ingest_vars
    /\ PipelineOnly

InitIngest ==
    /\ StoreIdle
    /\ RaceIdle
    /\ IngestIdle
    /\ NormalizeIdle
    /\ ReplaceIdle
    /\ ServiceIdle
    /\ local_data = NotFetched
    /\ online_data = NotFetched
    /\ days_since_new_moon = 0
    /\ current_weather = MergedInitial
    /\ outcome = "pending"
    /\ forecast = NoDocument

NextIngest ==
    \/ \E upload \in Uploads : \E peer \in Peers : FileReceived(upload, peer)
    \/ \E name \in InboxNames : \E size \in InboxSizes : InboxDrop(name, size)
    \/ IngestLatest
    \/ Midnight

SpecIngest == InitIngest /\ [][NextIngest]_vars

(***************************************************************************)
(* The writers of the shared files, one file operation at a time.  wjob    *)
(* is the running (or last) program with the disk it started from, wpc     *)
(* counts its file operations, seen is what a reader last read.            *)
(***************************************************************************)

\* mutant: the status record is written before the copies
WriterOpsStatusFirst(job) ==
    CASE job.program = "receiver" ->
             IF ~job.upload.exists \/ job.upload.size = 0 THEN <<>>
             ELSE IF job.peer = NoPeer THEN <<"archive", "gallery">>
             ELSE <<"status", "archive", "gallery">>
      [] job.program = "ingest" ->
             IF InboxImages(job.dir) = {} THEN <<>>
             ELSE <<"status", "latest", "gallery", "archive">>
      [] OTHER -> <<>>

\* the shared files a program writes, in the order of its writes;
\* _update_status opens no file when getpeername() raises
WriterOps(job) ==
    CASE job.program = "receiver" ->
             IF ~job.upload.exists \/ job.upload.size = 0 THEN <<>>
             ELSE IF job.peer = NoPeer THEN <<"archive", "gallery">>
             ELSE <<"archive", "gallery", "status">>
      [] job.program = "ingest" ->
             IF InboxImages(job.dir) = {} THEN <<>>
             ELSE <<"latest", "gallery", "archive", "status">>
      [] OTHER -> <<>>

\* the disk a program leaves when it runs from job.before to its end
Completed(job) ==
    CASE job.program = "receiver" ->
             _process_image_complete(job.before, job.upload, job.peer, now)
      [] job.program = "ingest" -> ingest_latest(job.before, job.dir, now).disk
      [] OTHER -> job.before

\* the name of the image a program copies
JobFile(job) ==
    IF job.program = "ingest" THEN _newest_jpg(job.dir) ELSE job.upload.name

\* a file of zero bytes: what open(path, "w") leaves before the first write
ZeroBytes == [bytes |-> 0]

\* the content of one shared file on a disk
ReadFile(disk, target, name, t) ==
    CASE target = "latest" -> disk.latest
      [] target = "gallery" ->
             IF name \in DOMAIN disk.gallery
             THEN [exists |-> TRUE, size |-> disk.gallery[name]] ELSE NoImage
      [] target = "archive" ->
             IF <<UtcDate(t), name>> \in DOMAIN disk.archive
             THEN [exists |-> TRUE, size |-> disk.archive[<<UtcDate(t), name>>]] ELSE NoImage
      [] OTHER -> disk.status

\* shutil.copy2 and Path.write_text open the destination for writing, which
\* creates it or cuts it to zero bytes
OpenForWriting(disk, target, name, t) ==
    CASE target = "latest" -> [disk EXCEPT !.latest = [exists |-> TRUE, size |-> 0]]
      [] target = "gallery" -> [disk EXCEPT !.gallery = Put(@, name, 0)]
      [] target = "archive" -> [disk EXCEPT !.archive = Put(@, <<UtcDate(t), name>>, 0)]
      [] OTHER -> [disk EXCEPT !.status = ZeroBytes]

\* ... and then write the content, which is the content the whole program
\* leaves in that file
WriteContent(disk, target, name, t, done) ==
    CASE target = "latest" -> [disk EXCEPT !.latest = done.latest]
      [] target = "gallery" -> [disk EXCEPT !.gallery = Put(@, name, done.gallery[name])]
      [] target = "archive" ->
             [disk EXCEPT !.archive =
                 Put(@, <<UtcDate(t), name>>, done.archive[<<UtcDate(t), name>>])]
      [] OTHER -> [disk EXCEPT !.status = done.status]

SharedTargets == {"status", "latest", "gallery", "archive"}

\* the number of program runs followed
MaxRuns == 2

WritersOnly ==
    /\ UNCHANGED <<composer_vars, race_vars, normalize_vars, service_vars>>
    /\ UNCHANGED <<weather_file, raw_result, now, inbox, forecast_file>>

\* a program starts: on_file_received for an image, or one run of
\* skywatch_inbox_ingest.py
StartWrite(program, upload, peer) ==
    LET job == [program |-> program, run |-> wjob.run + 1, upload |-> upload,
                peer |-> peer, dir |-> inbox, before |-> Disk]
    IN  /\ wpc = 0
        /\ wjob.run < MaxRuns
        /\ Len(WriterOps(job)) > 0
        /\ wjob' = job
        /\ wpc' = 1
        /\ UNCHANGED <<archive, gallery, latest, status, ftp_log, seen>>
        /\ WritersOnly

\* the running program does its next file operation
WriterStep ==
    LET ops    == WriterOps(wjob)
        target == ops[(wpc + 1) \div 2]
        done   == Completed(wjob)
        after  == IF wpc % 2 = 1
                  THEN OpenForWriting(Disk, target, JobFile(wjob), now)
                  ELSE WriteContent(Disk, target, JobFile(wjob), now, done)
    IN  /\ wpc > 0
        /\ archive' = after.archive
        /\ gallery' = after.gallery
        /\ latest' = after.latest
        /\ status' = after.status
        /\ ftp_log' = IF wpc = 2 * Len(ops) THEN done.ftp_log ELSE ftp_log
        /\ wpc' = IF wpc = 2 * Len(ops) THEN 0 ELSE wpc + 1
        /\ UNCHANGED <<wjob, seen>>
        /\ WritersOnly

\* the running program is killed between two file operations
Interrupt ==
    /\ wpc > 0
    /\ wpc' = 0
    /\ UNCHANGED <<archive, gallery, latest, status, ftp_log, wjob, seen>>
    /\ WritersOnly

\* a reader reads one of the files the program writes; before and after are
\* the file's content on the disk the program started from and on the disk
\* it leaves when it completes
ReadShared(target) ==
    /\ wjob # NoJob
    /\ seen' = [target |-> target,
                content |-> ReadFile(Disk, target, JobFile(wjob), now),
                before |-> ReadFile(wjob.before, target, JobFile(wjob), now),
                after |-> ReadFile(Completed(wjob), target, JobFile(wjob), now)]
    /\ UNCHANGED <<archive, gallery, latest, status, ftp_log, wpc, wjob>>
    /\ WritersOnly

\* the inbox drain takes no upload and has no peer
NoUpload == [name |-> <<>>, exists |-> FALSE, size |-> 0, text |-> <<"garbage">>]

NextReplace ==
    \/ \E upload \in ImageUploads : \E peer \in Peers : StartWrite("receiver", upload, peer)
    \/ StartWrite("ingest", NoUpload, NoPeer)
    \/ WriterStep
    \/ Interrupt
    \/ \E target \in SharedTargets : ReadShared(target)

\* the drop directory holds one image, as InboxDrop leaves it
InitReplace ==
    /\ StoreIdle
    /\ RaceIdle
    /\ NormalizeIdle
    /\ ReplaceIdle
    /\ ServiceIdle
    /\ archive = EmptyDict
    /\ gallery = EmptyDict
    /\ latest = NoImage
    /\ status = NoStatus
    /\ forecast_file = NoForecastFile
    /\ inbox \in { Put(EmptyDict, name, [size |-> size, mtime |-> 0]) :
                      name \in InboxNames, size \in InboxSizes }
    /\ ftp_log = NothingLogged
    /\ local_data = NotFetched
    /\ online_data = NotFetched
    /\ days_since_new_moon = 0
    /\ current_weather = MergedInitial
    /\ outcome = "pending"
    /\ forecast = NoDocument

SpecReplace == InitReplace /\ [][NextReplace]_vars

(***************************************************************************)
(* Two peers uploading at the same time.  Every login has the same home    *)
(* directory (DATA_DIR), so an upload is the file DATA_DIR/<name>.  The    *)
(* server runs one I/O loop: STOR opens the file for writing, the data     *)
(* channel writes the peer's bytes from offset 0, and when it closes       *)
(* on_file_received runs to its end before anything else is served.        *)
(***************************************************************************)
TransferPeers == {"10.0.0.5:40000", "10.0.0.6:40000"}
TransferNames == {<<"a", ".jpg">>, <<"b", ".jpg">>}

\* each peer sends an image of its own length
TransferSize(peer) == IF peer = "10.0.0.5:40000" THEN 1 ELSE 2

\* overlapped: another peer's transfer was in flight during this one
Idle == [pc |-> "idle", name |-> <<>>, size |-> 0, overlapped |-> FALSE]

InFlight(transfer) == transfer.pc \in {"receiving", "received"}

TransfersOnly ==
    /\ UNCHANGED <<composer_vars, store_vars, race_vars, normalize_vars, replace_vars>>
    /\ UNCHANGED <<response, inbox, merging>>

\* STOR <name>: the file in the FTP root is created or cut to zero bytes
Stor(peer, name) ==
    /\ transfers[peer].pc \in {"idle", "done"}
    /\ transfers' =
         [other \in TransferPeers |->
            IF other = peer
            THEN [pc |-> "receiving", name |-> name, size |-> TransferSize(peer),
                  overlapped |-> \E q \in TransferPeers \ {peer} : InFlight(transfers[q])]
            ELSE [transfers[other] EXCEPT !.overlapped = @ \/ InFlight(transfers[other])]]
    /\ incoming' = Put(incoming, name, 0)
    /\ UNCHANGED <<archive, gallery, latest, status, forecast_file, ftp_log>>
    /\ TransfersOnly

\* the data channel writes the peer's bytes through its own descriptor
Receive(peer) ==
    /\ transfers[peer].pc = "receiving"
    /\ transfers' = [transfers EXCEPT ![peer].pc = "received"]
    /\ incoming' = Put(incoming, transfers[peer].name,
                       Max(incoming[transfers[peer].name], transfers[peer].size))
    /\ UNCHANGED <<archive, gallery, latest, status, forecast_file, ftp_log>>
    /\ TransfersOnly

\* the data channel closes and the server calls on_file_received
Complete(peer) ==
    LET name  == transfers[peer].name
        after == on_file_received(
                     Disk, [name |-> name, exists |-> TRUE, size |-> incoming[name],
                            text |-> <<"garbage">>], peer, now)
    IN  /\ transfers[peer].pc = "received"
        /\ transfers' = [transfers EXCEPT ![peer].pc = "done"]
        /\ archive' = after.archive
        /\ gallery' = after.gallery
        /\ latest' = after.latest
        /\ status' = after.status
        /\ forecast_file' = after.forecast_file
        /\ ftp_log' = after.ftp_log
        /\ UNCHANGED incoming
        /\ TransfersOnly

InitTransfers ==
    /\ StoreIdle
    /\ RaceIdle
    /\ IngestIdle
    /\ NormalizeIdle
    /\ ReplaceIdle
    /\ response = NoResponse
    /\ incoming = EmptyDict
    /\ transfers = [peer \in TransferPeers |-> Idle]
    /\ merging = NotMerging
    /\ local_data = NotFetched
    /\ online_data = NotFetched
    /\ days_since_new_moon = 0
    /\ current_weather = MergedInitial
    /\ outcome = "pending"
    /\ forecast = NoDocument

NextTransfers ==
    \/ \E peer \in TransferPeers : \E name \in TransferNames : Stor(peer, name)
    \/ \E peer \in TransferPeers : Receive(peer)
    \/ \E peer \in TransferPeers : Complete(peer)

SpecTransfers == InitTransfers /\ [][NextTransfers]_vars

(***************************************************************************)
(* One payload taken through the three ingestion paths: the JSON           *)
(* normalizer (parse_json_weather), the key=value file parser              *)
(* (parse_cloudsensor_file) and the local sensor reader                    *)
(* (parse_to_standard_format on the content of current.json).              *)
(***************************************************************************)
IngestionPaths == {"json", "keyvalue", "local"}

\* the keys a payload may carry: every alias of the three tables, an alias in
\* upper case, and a key no table knows
LocalAliases ==
    UNION {{StandardAliases[c][i] : i \in 1..Len(StandardAliases[c])} : c \in DOMAIN StandardAliases}
    \cup {"dewpoint", "dewpoint_c"}

PayloadKeys ==
    DOMAIN field_map \cup DOMAIN CloudSensorMap \cup LocalAliases \cup {"TEMP", "foo"}

\* the keys of the payloads of two items
PairKeys ==
    {"temp", "temperature", "humidity", "rh", "dewpoint", "dew_point", "dewpoint_c", "foo"}

PayloadValues == {Num(Dec(10, 0)), Num(Dec(20, 0)), Num(0), Str("abc"), None}

Payloads ==
    { << <<k, v>> >> : k \in PayloadKeys, v \in PayloadValues }
    \cup
    { << <<k[1], v[1]>>, <<k[2], v[2]>> >> :
        k \in {kk \in PairKeys \X PairKeys : kk[1] # kk[2]},
        v \in PayloadValues \X PayloadValues }

\* the value as it is spelled in a key=value line
AsText(v) ==
    IF v = None THEN Str("None")
    ELSE IF v[1] = "num" THEN DecText(v[2])
    ELSE v

\* the lines of the key=value file carrying the items
KvLines(items) == [i \in 1..Len(items) |-> <<"kv", items[i][1], AsText(items[i][2])>>]

Normalization(value) == [pending |-> FALSE, raised |-> FALSE, value |-> value]
NormalizerRaised == [pending |-> FALSE, raised |-> TRUE, value |-> EmptyDict]

\* parse_to_standard_format on a fresh current.json holding the items
LocalReading(items) ==
    LET r == parse_to_standard_format(
                 [ok |-> TRUE, source |-> Str("Local Weather Station (file)"),
                  data |-> ItemsDict(items), read_at |-> Iso(0)])
    IN  IF r.raised THEN NormalizerRaised ELSE Normalization(r.value.current)

NormalizeJson ==
    /\ readings["json"].pending
    /\ readings' = [readings EXCEPT
                      !["json"] = Normalization(parse_json_weather(<<"object", payload>>))]
    /\ UNCHANGED <<payload, composer_vars, store_vars, race_vars, ingest_vars, replace_vars, service_vars>>

NormalizeKeyValue ==
    /\ readings["keyvalue"].pending
    /\ readings' = [readings EXCEPT
                      !["keyvalue"] = Normalization(parse_cloudsensor_file("w.txt", KvLines(payload)))]
    /\ UNCHANGED <<payload, composer_vars, store_vars, race_vars, ingest_vars, replace_vars, service_vars>>

NormalizeLocal ==
    /\ readings["local"].pending
    /\ readings' = [readings EXCEPT !["local"] = LocalReading(payload)]
    /\ UNCHANGED <<payload, composer_vars, store_vars, race_vars, ingest_vars, replace_vars, service_vars>>

InitNormalize ==
    /\ payload \in Payloads
    /\ readings = [json |-> NotNormalized, keyvalue |-> NotNormalized, local |-> NotNormalized]
    /\ StoreIdle
    /\ RaceIdle
    /\ IngestIdle
    /\ ReplaceIdle
    /\ ServiceIdle
    /\ local_data = NotFetched
    /\ online_data = NotFetched
    /\ days_since_new_moon = 0
    /\ current_weather = MergedInitial
    /\ outcome = "pending"
    /\ forecast = NoDocument

NextNormalize ==
    \/ NormalizeJson
    \/ NormalizeKeyValue
    \/ NormalizeLocal

SpecNormalize == InitNormalize /\ [][NextNormalize]_vars

(***************************************************************************)
(* ForecastComposer: generate_combined_forecast                            *)
(***************************************************************************)
\* `cloud_cover < 20 and visibility > 15`, `elif cloud_cover < 40 and
\* visibility > 10`, `elif cloud_cover < 60`: comparing None (or a string) with
\* a number raises TypeError; `and` evaluates its right operand only when the
\* left one is true
SkyQualityRaises(cloud_cover, visibility) ==
    \/ ~IsNum(cloud_cover)
    \/ (NumOf(cloud_cover) < Dec(40, 0) /\ ~IsNum(visibility))

SkyQuality(cloud_cover, visibility) ==
    LET c == NumOf(cloud_cover)
        v == NumOf(visibility)
    IN  IF c < Dec(20, 0) /\ v > Dec(15, 0) THEN
            [transparency |-> "excellent", seeing |-> "good", overall_rating |-> Dec(9, 0),
             sqm_mag_per_arcsec2 |-> Dec(19, 5)]
        ELSE IF c < Dec(40, 0) /\ v > Dec(10, 0) THEN
            [transparency |-> "good", seeing |-> "moderate", overall_rating |-> Dec(7, 0),
             sqm_mag_per_arcsec2 |-> Dec(18, 5)]
        ELSE IF c < Dec(60, 0) THEN
            [transparency |-> "moderate", seeing |-> "moderate", overall_rating |-> Dec(5, 0),
             sqm_mag_per_arcsec2 |-> Dec(18, 5)]
        ELSE
            [transparency |-> "poor", seeing |-> "poor", overall_rating |-> Dec(3, 0),
             sqm_mag_per_arcsec2 |-> Dec(18, 5)]

\* mutant: the reason of a failed fetch is not copied into the document
DataSourceWithoutReason(data) ==
    [available |-> Ok(data),
     source |-> Get(data, "source", Str("Not available")),
     error |-> None]

\* one entry of data_sources
DataSource(data) ==
    [available |-> Ok(data),
     source |-> Get(data, "source", Str("Not available")),
     error |-> IF ~Ok(data) THEN Get(data, "error", None) ELSE None]

\* current_weather.get("cloud_cover_pct", 50): the key is always in the merged
\* dict, so the default is never used and a None value is returned as it is
generate_combined_forecast(online, local, days) ==
    LET astronomy_data      == calculate_basic_astronomy(days)
        merged              == merge_weather_sources(online, local)
        observation_windows == calculate_observation_windows(online, local, astronomy_data)
        cloud_cover         == Get(merged, "cloud_cover_pct", Num(Dec(50, 0)))
        visibility          == Get(merged, "visibility_km", Num(Dec(10, 0)))
    IN  IF SkyQualityRaises(cloud_cover, visibility)
        THEN [outcome |-> "raised", doc |-> NoDocument]
        ELSE [outcome |-> "returned",
              doc |-> [source |-> "Combined: Online API + Local Sensors",
                       data_sources |-> [online |-> DataSource(online),
                                         local |-> DataSource(local)],
                       current |-> merged,
                       astronomy |-> astronomy_data,
                       sky_quality |-> SkyQuality(cloud_cover, visibility),
                       observation_windows |-> observation_windows,
                       forecast_48h |-> IF Ok(online)
                                        THEN Get(online, "forecast_48h", <<>>)
                                        ELSE <<>>]]

\* one run of the composer on the two fetcher results
Compose ==
    /\ outcome = "pending"
    /\ LET r == generate_combined_forecast(online_data, local_data, days_since_new_moon)
       IN  /\ outcome' = r.outcome
           /\ forecast' = r.doc
    /\ current_weather' = merge_weather_sources(online_data, local_data)
    /\ UNCHANGED <<online_data, local_data, days_since_new_moon>>
    /\ UNCHANGED <<store_vars, race_vars, ingest_vars, normalize_vars, replace_vars, service_vars>>

(***************************************************************************)
(* Fetcher results the composer is run on                                  *)
(***************************************************************************)
\* how many keys of the two `current` dicts vary freely at once
MaxFocus == 1
\* forecast points in one fetch
MaxPoints == 2
\* days after the new-moon epoch
MaxDay == 29

\* "this key is not in the dict"
Absent == <<"absent">>

LocalValue(k) == IF k = "conditions" THEN Str("mist") ELSE Num(Dec(10, 0))

OnlineValues(k) ==
    CASE k = "cloud_cover_pct" -> {Num(Dec(30, 0)), Num(Dec(15, 0)), Num(Dec(70, 0))}
      [] k = "visibility_km"   -> {Num(Dec(12, 0)), Num(Dec(8, 0)), Num(Dec(20, 0))}
      [] k = "conditions"      -> {Str("clear sky")}
      [] OTHER                 -> {Num(Dec(20, 0))}

OnlineValue(k) ==
    CASE k = "cloud_cover_pct" -> Num(Dec(30, 0))
      [] k = "visibility_km"   -> Num(Dec(12, 0))
      [] k = "conditions"      -> Str("clear sky")
      [] OTHER                 -> Num(Dec(20, 0))

LocalCells(k) == {Absent, None, LocalValue(k)}
OnlineCells(k) == {Absent, None} \cup OnlineValues(k)

\* the dict holding the keys whose cell is not Absent
DictOf(cells) == [k \in {x \in DOMAIN cells : cells[x] # Absent} |-> cells[k]]

FocusSets == {F \in SUBSET MergedKeys : Cardinality(F) <= MaxFocus}

\* `current` dicts: every key outside the focus F is supplied (full) or not
\* supplied; the keys in F take any cell
LocalCurrents ==
    UNION { UNION { { DictOf([k \in MergedKeys |->
                                IF k \in F THEN f[k]
                                ELSE IF full THEN LocalValue(k) ELSE Absent])
                      : f \in {g \in [F -> UNION {LocalCells(k) : k \in F}] :
                                 \A k \in F : g[k] \in LocalCells(k)} }
                    : full \in BOOLEAN }
            : F \in FocusSets }

OnlineCurrents ==
    UNION { UNION { { DictOf([k \in MergedKeys |->
                                IF k \in F THEN f[k]
                                ELSE IF full THEN OnlineValue(k) ELSE Absent])
                      : f \in {g \in [F -> UNION {OnlineCells(k) : k \in F}] :
                                 \A k \in F : g[k] \in OnlineCells(k)} }
                    : full \in BOOLEAN }
            : F \in FocusSets }

\* parse_to_forecast_format's `current`: every key, all with values
OnlineFullCurrent == [k \in MergedKeys |-> OnlineValue(k)]

ForecastTimes ==
    << <<"dt", 0, 15, 0>>, <<"dt", 0, 18, 0>>, <<"dt", 0, 21, 0>>,
       <<"dt", 1, 0, 0>>, <<"dt", 1, 3, 0>>, <<"dt", 1, 21, 0>> >>

ForecastClouds == {Dec(15, 0), Dec(25, 0), Dec(40, 0), Dec(59, 0), Dec(80, 0)}

\* chronological forecasts of at most MaxPoints points
Forecasts ==
    UNION { { [i \in 1..n |-> [timestamp |-> ForecastTimes[ix[i]], cloud_cover_pct |-> cl[i]]]
              : ix \in {s \in [1..n -> 1..Len(ForecastTimes)] :
                          \A i \in 1..n, j \in 1..n : i < j => s[i] < s[j]},
                cl \in [1..n -> ForecastClouds] }
            : n \in 0..MaxPoints }

ForecastSample == << [timestamp |-> <<"dt", 0, 21, 0>>, cloud_cover_pct |-> Dec(15, 0)] >>

\* run_fetcher on fetch_online_weather.py: the script failed, the script printed
\* its not-configured notice, or it printed parse_to_forecast_format's result
OnlineResults(currents, forecasts) ==
    { [ok |-> FALSE, error |-> Str("Network error"), script |-> Str("fetch_online_weather.py")],
      [ok |-> FALSE, source |-> Str("OpenWeatherMap API (not configured)"),
       error |-> Str("API key required")] }
    \cup { [ok |-> TRUE, source |-> Str("OpenWeatherMap API"), current |-> c, forecast_48h |-> f]
           : c \in currents, f \in forecasts }

\* run_fetcher on fetch_local_weather.py: the script failed, or it printed
\* parse_to_standard_format's result
LocalResults(currents) ==
    { [ok |-> FALSE, error |-> Str("Sensor data file not found"),
       script |-> Str("fetch_local_weather.py")] }
    \cup { [ok |-> TRUE, source |-> Str("Local Weather Station (file)"), current |-> c]
           : c \in currents }

InitCompose ==
    /\ online_data \in OnlineResults(OnlineCurrents, {<<>>, ForecastSample})
    /\ local_data \in LocalResults(LocalCurrents)
    /\ days_since_new_moon = 0
    /\ current_weather = MergedInitial
    /\ outcome = "pending"
    /\ forecast = NoDocument
    /\ StoreIdle
    /\ RaceIdle
    /\ IngestIdle
    /\ NormalizeIdle
    /\ ReplaceIdle
    /\ ServiceIdle

InitWindows ==
    /\ online_data \in OnlineResults({OnlineFullCurrent}, Forecasts)
    /\ local_data \in LocalResults({})
    /\ days_since_new_moon \in 0..MaxDay
    /\ current_weather = MergedInitial
    /\ outcome = "pending"
    /\ forecast = NoDocument
    /\ StoreIdle
    /\ RaceIdle
    /\ IngestIdle
    /\ NormalizeIdle
    /\ ReplaceIdle
    /\ ServiceIdle

NextCompose == Compose

SpecCompose == InitCompose /\ [][NextCompose]_vars

SpecWindows == InitWindows /\ [][NextCompose]_vars

(***************************************************************************)
(* forecast.json between its two writers: the compose cycle                *)
(* (generate_forecast.py run as a script) and the receiver's metadata      *)
(* merge, whose read of the file and whose write of it are separate steps. *)
(***************************************************************************)

\* the fetcher results of the compose cycles followed here
CycleOnline ==
    OnlineResults({OnlineFullCurrent,
                   [OnlineFullCurrent EXCEPT !["cloud_cover_pct"] = Num(Dec(70, 0))]},
                  {ForecastSample})

CycleLocal == LocalResults({[temperature_c |-> Num(Dec(10, 0))]})

\* json.dump(forecast, f): the document with its timestamp
Dumped(doc, t) == [exists |-> TRUE, doc |-> Update(doc, [timestamp |-> Iso(t)])]

\* one run of generate_forecast.py: fetch, compose and write forecast.json,
\* or exit with status 1 when composing raised
ComposeCycle(online, local) ==
    LET r == generate_combined_forecast(online, local, days_since_new_moon)
    IN  /\ online_data' = online
        /\ local_data' = local
        /\ outcome' = r.outcome
        /\ forecast' = r.doc
        /\ current_weather' = merge_weather_sources(online, local)
        /\ forecast_file' = IF r.outcome = "returned" THEN Dumped(r.doc, now) ELSE forecast_file
        /\ UNCHANGED <<days_since_new_moon, merging, response, incoming, transfers>>
        /\ UNCHANGED <<archive, gallery, latest, status, inbox, ftp_log>>
        /\ UNCHANGED <<store_vars, race_vars, normalize_vars, replace_vars>>

ForecastFileOnly ==
    /\ UNCHANGED <<composer_vars, store_vars, race_vars, normalize_vars, replace_vars>>
    /\ UNCHANGED <<archive, gallery, latest, status, inbox, response, incoming, transfers>>

\* _process_metadata has parsed the upload and _merge_skywatch_data has read
\* forecast.json
MergeRead(upload) ==
    /\ merging.pc \in {"idle", "done"}
    /\ upload.exists
    /\ upload.size > 0
    /\ JsonLoadsOk(upload.text)
    /\ merging' = [pc |-> "read", file |-> forecast_file, data |-> JsonLoads(upload.text)]
    /\ UNCHANGED <<forecast_file, ftp_log>>
    /\ ForecastFileOnly

\* _merge_skywatch_data changes the document it read and writes it, or
\* raises before the write
MergeWrite ==
    LET after == _merge_skywatch_data([Disk EXCEPT !.forecast_file = merging.file],
                                      merging.data, now)
    IN  /\ merging.pc = "read"
        /\ merging' = [merging EXCEPT !.pc = "done"]
        /\ forecast_file' = IF after.ftp_log.level = "ERROR" THEN forecast_file
                            ELSE after.forecast_file
        /\ ftp_log' = after.ftp_log
        /\ ForecastFileOnly

InitMerging ==
    /\ StoreIdle
    /\ RaceIdle
    /\ IngestIdle
    /\ NormalizeIdle
    /\ ReplaceIdle
    /\ ServiceIdle
    /\ local_data = NotFetched
    /\ online_data = NotFetched
    /\ days_since_new_moon = 0
    /\ current_weather = MergedInitial
    /\ outcome = "pending"
    /\ forecast = NoDocument

NextMerging ==
    \/ \E online \in CycleOnline : \E local \in CycleLocal : ComposeCycle(online, local)
    \/ \E upload \in MetadataUploads : MergeRead(upload)
    \/ MergeWrite

SpecMerging == InitMerging /\ [][NextMerging]_vars

(***************************************************************************)
(* Properties of the composer                                              *)
(***************************************************************************)
\* channel `data` is available and its `current` holds a non-null value for k
Supplies(data, k) ==
    /\ Ok(data)
    /\ "current" \in DOMAIN data
    /\ k \in DOMAIN data.current
    /\ data.current[k] # None

\* C1: whenever the online result is a failure and the local result is a
\* success carrying `current`, the compose returns (does not raise) a document
\* whose measurement fields equal the local values, whose forecast_48h is
\* empty and whose data_sources.online.available is false.
C1_PartialFailureTolerance ==
    (/\ outcome # "pending"
     /\ ~Ok(online_data)
     /\ Ok(local_data)
     /\ "current" \in DOMAIN local_data)
    => /\ outcome = "returned"
       /\ \A k \in LocalPreferredKeys :
            Supplies(local_data, k) => forecast.current[k] = local_data.current[k]
       /\ forecast.forecast_48h = <<>>
       /\ forecast.data_sources.online.available = FALSE

\* C2: with both channels available, each direct-measurement field equals the
\* local value when local supplies a non-null one and the online value
\* otherwise; cloud cover, visibility and conditions equal the online value
\* whenever online has it.
C2_FusionPrecedence ==
    (/\ outcome # "pending"
     /\ Ok(online_data) /\ "current" \in DOMAIN online_data
     /\ Ok(local_data) /\ "current" \in DOMAIN local_data)
    => /\ \A k \in LocalPreferredKeys :
            IF Supplies(local_data, k)
            THEN current_weather[k] = local_data.current[k]
            ELSE IF k \in DOMAIN online_data.current
                 THEN current_weather[k] = online_data.current[k]
                 ELSE current_weather[k] = None
       /\ \A k \in OnlinePreferredKeys :
            k \in DOMAIN online_data.current
            => current_weather[k] = online_data.current[k]

C2_Witness ==
    /\ outcome = "returned"
    /\ Supplies(local_data, "temperature_c")
    /\ Supplies(online_data, "temperature_c")
    /\ local_data.current["temperature_c"] # online_data.current["temperature_c"]
    /\ forecast.current["temperature_c"] = local_data.current["temperature_c"]
    /\ Supplies(online_data, "cloud_cover_pct")
    /\ ~Supplies(local_data, "cloud_cover_pct")
    /\ forecast.current["cloud_cover_pct"] = online_data.current["cloud_cover_pct"]

\* C3: a field the preferred channel does not supply is filled from the first
\* other available channel that has it (local, then online); a fused field is
\* null only when no available channel supplies it.
C3_FallbackFill ==
    outcome # "pending"
    => \A k \in MergedKeys :
         /\ current_weather[k] = None
            => ~Supplies(local_data, k) /\ ~Supplies(online_data, k)
         /\ (k \in OnlinePreferredKeys /\ ~Supplies(online_data, k) /\ Supplies(local_data, k))
            => current_weather[k] = local_data.current[k]
         /\ (k \in LocalPreferredKeys /\ ~Supplies(local_data, k) /\ Supplies(online_data, k))
            => current_weather[k] = online_data.current[k]

\* C4: every non-null fused field has a provenance entry, and the entry names
\* a channel that was available and supplied exactly that value; a null field
\* has no provenance entry.
C4_ProvenanceInvariant ==
    outcome # "pending"
    => \A k \in MergedKeys :
         LET prov == per_field_provenance(current_weather)
         IN  IF current_weather[k] = None
             THEN k \notin DOMAIN prov
             ELSE /\ k \in DOMAIN prov
                  /\ prov[k] \in {"local", "online"}
                  /\ prov[k] = "local"
                     => Supplies(local_data, k) /\ local_data.current[k] = current_weather[k]
                  /\ prov[k] = "online"
                     => Supplies(online_data, k) /\ online_data.current[k] = current_weather[k]

\* the forecast points of period p, as a set of indices into the fetched forecast
PointsIn(p) ==
    {i \in DOMAIN online_data.forecast_48h :
        LET t == online_data.forecast_48h[i].timestamp
            m == (t[2] * 24 + t[3]) * 60 + t[4]
        IN  p.start <= m /\ m <= p.end}

RECURSIVE CloudTotal(_)
CloudTotal(I) ==
    IF I = {} THEN 0
    ELSE LET i == CHOOSE x \in I : TRUE
         IN  online_data.forecast_48h[i].cloud_cover_pct + CloudTotal(I \ {i})

\* C9: every scored window has quality/rating excellent/9.5, good/7.5,
\* moderate/5.0 or poor/3.0 by mean cloud cover below 20, below 40, below 60 or
\* not; the moon penalty is 1.5 ("high") above 80 % illumination, 0.5
\* ("moderate") above 40 %, else 0 ("minimal"); the final rating is base minus
\* penalty, within [0, 10].
C9_WindowScoring ==
    outcome = "returned"
    => \A i \in DOMAIN forecast.observation_windows :
         LET w     == forecast.observation_windows[i]
             p     == CHOOSE q \in {periods[j] : j \in DOMAIN periods} : q.name = w.period
             n     == Cardinality(PointsIn(p))
             total == CloudTotal(PointsIn(p))
             illum == forecast.astronomy.moon_illumination_pct
             base  == IF total < 200 * n THEN 95
                      ELSE IF total < 400 * n THEN 75
                      ELSE IF total < 600 * n THEN 50 ELSE 30
             pen   == IF illum > 800 THEN 15 ELSE IF illum > 400 THEN 5 ELSE 0
         IN  /\ n >= 1
             /\ w.quality = (IF total < 200 * n THEN "excellent"
                             ELSE IF total < 400 * n THEN "good"
                             ELSE IF total < 600 * n THEN "moderate" ELSE "poor")
             /\ w.moon_interference = (IF illum > 800 THEN "high"
                                       ELSE IF illum > 400 THEN "moderate" ELSE "minimal")
             /\ w.rating = base - pen
             /\ 0 <= w.rating /\ w.rating <= 100

\* a window of mean cloud cover 15 under a moon above 80 % is rated 8.0
C9_Witness ==
    /\ outcome = "returned"
    /\ \E i \in DOMAIN forecast.observation_windows :
         /\ forecast.observation_windows[i].avg_cloud_cover_pct = 150
         /\ forecast.astronomy.moon_illumination_pct > 800
         /\ forecast.observation_windows[i].quality = "excellent"
         /\ forecast.observation_windows[i].rating = 80

(***************************************************************************)
(* Properties of the weather store                                         *)
(***************************************************************************)
\* the stored record carries a timestamp more than 10 minutes before `now`
StoredStale ==
    /\ weather_file.exists
    /\ "timestamp" \in DOMAIN weather_file.data
    /\ now - weather_file.data["timestamp"][2] > 600

StoredFresh ==
    /\ weather_file.exists
    /\ "timestamp" \in DOMAIN weather_file.data
    /\ now - weather_file.data["timestamp"][2] <= 600

\* C5: a local read of a stored reading more than 10 minutes old reports the
\* channel stale (a failure carrying the age), the fused record is what it
\* would be without a local channel, and the stored file is left unchanged; a
\* reading at most 10 minutes old is reported usable.
C5_StalenessExclusion ==
    [][LocalFetch =>
         /\ StoredStale =>
              /\ raw_result'.ok = FALSE
              /\ raw_result'.error = Str("Sensor data is stale")
              /\ raw_result'.age_seconds = now - weather_file.data["timestamp"][2]
              /\ ~Ok(local_data')
              /\ \A o \in OnlineResults({OnlineFullCurrent}, {<<>>}) :
                   merge_weather_sources(o, local_data')
                     = merge_weather_sources(o, [ok |-> FALSE])
              /\ weather_file' = weather_file
         /\ StoredFresh => raw_result'.ok = TRUE
      ]_vars

\* a fetch has reported a reading of age 601 s stale
C5_Witness ==
    /\ "age_seconds" \in DOMAIN raw_result
    /\ raw_result.error = Str("Sensor data is stale")
    /\ raw_result.age_seconds = 601
    /\ weather_file.exists

\* C6: a successful update_from_json / update_from_file applied to a store
\* whose record is stale leaves a record stamped with the instant of the
\* update, so that a local read at that instant reports it usable.
C6_RefreshEndsStaleness ==
    [][/\ \A j \in JsonPayloads :
            (UpdateFromJson(j) /\ update_from_json(weather_file, j, now).returned /\ StoredStale)
            => /\ weather_file'.data["timestamp"] = Iso(now)
               /\ read_file_based_sensors(weather_file', now').ok
       /\ \A f \in SensorFiles :
            (UpdateFromFile(f) /\ update_from_file(weather_file, f, now).returned /\ StoredStale)
            => /\ weather_file'.data["timestamp"] = Iso(now)
               /\ read_file_based_sensors(weather_file', now').ok
      ]_vars

\* the effect of one update whose normalized payload is n and which returned r
MergeFrame(n, r) ==
    IF r
    THEN /\ weather_file'.exists
         /\ \A k \in DOMAIN n : k \in DOMAIN weather_file'.data /\ weather_file'.data[k] = n[k]
         /\ \A k \in (DOMAIN weather_file.data \cup DOMAIN weather_file'.data) \ DOMAIN n :
              /\ k \in DOMAIN weather_file.data
                 => k \in DOMAIN weather_file'.data /\ weather_file'.data[k] = weather_file.data[k]
              /\ k \notin DOMAIN weather_file.data => k = "timestamp"
    ELSE weather_file' = weather_file

\* C7: a successful update gives every field of the normalized payload its new
\* value and leaves every other stored field as it was (a record written for
\* the first time gains its timestamp); a failed update leaves the stored
\* record unchanged.
C7_StoreMergeFrame ==
    [][/\ \A j \in JsonPayloads :
            UpdateFromJson(j)
            => MergeFrame(NormalizedJson(j), update_from_json(weather_file, j, now).returned)
       /\ \A f \in SensorFiles :
            UpdateFromFile(f)
            => MergeFrame(NormalizedFile(f), update_from_file(weather_file, f, now).returned)
      ]_vars

\* a record that only two merged updates can produce
C7_Witness ==
    /\ weather_file.exists
    /\ "temperature_c" \in DOMAIN weather_file.data
    /\ "humidity_pct" \in DOMAIN weather_file.data
    /\ weather_file.data["temperature_c"] = Num(100)
    /\ weather_file.data["humidity_pct"] = Num(600)

(***************************************************************************)
(* Properties of concurrent store updates                                  *)
(***************************************************************************)
\* C8: once two concurrent updates have both completed, the stored record
\* holds every field written by each successful update, with that update's
\* value unless the other update wrote the same field.
C8_NoLostUpdates ==
    (\A p \in Updaters : upc[p] = "done")
    => \A p \in Updaters :
         ureturned[p]
         => \A k \in DOMAIN Normalized(urequest[p]) :
              /\ k \in DOMAIN weather_file.data
              /\ \/ weather_file.data[k] = Normalized(urequest[p])[k]
                 \/ \E q \in Updaters \ {p} :
                      ureturned[q] /\ k \in DOMAIN Normalized(urequest[q])

(***************************************************************************)
(* Properties of the image pipeline                                        *)
(***************************************************************************)
\* C10: when the receiver handles a completed image transfer whose file is
\* missing or zero bytes long, it logs that it skips the file and the
\* archive, the gallery, the latest file and the status record are exactly
\* as before.
C10_RejectedUploadLeavesNoTrace ==
    [][\A upload \in ImageUploads : \A peer \in Peers :
         (FileReceived(upload, peer) /\ (~upload.exists \/ upload.size = 0))
         => /\ UNCHANGED <<archive, gallery, latest, status>>
            /\ ftp_log'.msg = "Skipping 0-byte or missing file"
      ]_vars

\* the receiver has just skipped an upload named a.jpg while the archive and
\* the gallery hold the a.jpg received a day earlier and the latest file and
\* the status record are those of an earlier image
C10_Witness ==
    /\ ftp_log.msg = "Skipping 0-byte or missing file"
    /\ ftp_log.name = <<"a", ".jpg">>
    /\ <<"a", ".jpg">> \in DOMAIN gallery
    /\ gallery[<<"a", ".jpg">>] = 1
    /\ <<0, <<"a", ".jpg">>>> \in DOMAIN archive
    /\ now = 86400
    /\ latest.exists
    /\ status.last_event = "image_received"

\* a completed transfer of an image file that exists and is not empty
NonEmptyImage(upload) ==
    /\ EndsWith(upload.name, {".jpg", ".jpeg"})
    /\ upload.exists
    /\ upload.size > 0

\* C11: when the receiver has handled a completed non-empty image transfer,
\* the archive directory of the current UTC date and the gallery hold a copy
\* of the upload, and the latest file is a copy of it too.
C11_ImagePublication ==
    [][\A upload \in ImageUploads : \A peer \in Peers :
         (FileReceived(upload, peer) /\ NonEmptyImage(upload))
         => /\ <<UtcDate(now), upload.name>> \in DOMAIN archive'
            /\ archive'[<<UtcDate(now), upload.name>>] = upload.size
            /\ upload.name \in DOMAIN gallery'
            /\ gallery'[upload.name] = upload.size
            /\ latest' = [exists |-> TRUE, size |-> upload.size]
      ]_vars

\* a completed transfer of a metadata file that exists, is not empty and parses
ParsableMetadata(upload) ==
    /\ EndsWith(upload.name, {".json"})
    /\ upload.exists
    /\ upload.size > 0
    /\ JsonLoadsOk(upload.text)

\* C12: after the receiver has handled an accepted transfer, image or
\* metadata, the status record holds that transfer's event kind, filename,
\* size and peer address.
C12_StatusAfterEveryTransfer ==
    [][\A upload \in Uploads : \A peer \in Peers \ {NoPeer} :
         (FileReceived(upload, peer) /\ (NonEmptyImage(upload) \/ ParsableMetadata(upload)))
         => /\ status'.last_event \in {"image_received", "metadata_received"}
            /\ status'.last_filename = upload.name
            /\ status'.last_size_bytes = upload.size
            /\ status'.receiver_address = peer
      ]_vars

\* the transfer's artifacts and the status record naming it are on disk
Published(upload) ==
    /\ "last_filename" \in DOMAIN status'
    /\ status'.last_filename = upload.name
    /\ EndsWith(upload.name, {".jpg", ".jpeg"})
       => /\ <<UtcDate(now), upload.name>> \in DOMAIN archive'
          /\ archive'[<<UtcDate(now), upload.name>>] = upload.size
          /\ upload.name \in DOMAIN gallery'
          /\ gallery'[upload.name] = upload.size
    /\ EndsWith(upload.name, {".json"})
       => /\ forecast_file'.exists
          /\ "skywatch" \in DOMAIN forecast_file'.doc["data_sources"]
          /\ forecast_file'.doc["data_sources"]["skywatch"].last_update = Iso(now)

\* the transfer was turned down and wrote nothing
Rejected(upload) ==
    /\ ~NonEmptyImage(upload)
    /\ UNCHANGED <<archive, gallery, latest, status, forecast_file>>

\* C25: every completed transfer ends Published, with all its artifacts and
\* the status record written, or Rejected, with nothing written, and is
\* rejected only for an empty, zero-byte or unparsable payload; the receiver
\* goes on to handle later transfers.
C25_TransferEndsPublishedOrRejected ==
    [][\A upload \in Uploads : \A peer \in Peers :
         FileReceived(upload, peer) => (Published(upload) \/ Rejected(upload))
      ]_vars

\* the delays, in seconds, after which the inbox drain is run again
RerunDelays == {1, 86400}

\* C14: a second run of ingest_latest on an unchanged drop directory leaves
\* the status record, the latest file and the archive as the first run left
\* them, and a run on a drop directory without an image changes nothing.
C14_InboxDrainIdempotence ==
    /\ InboxImages(inbox) = {} =>
         /\ ~ingest_latest(Disk, inbox, now).returned
         /\ ingest_latest(Disk, inbox, now).disk = Disk
    /\ \A dt \in RerunDelays :
         LET first  == ingest_latest(Disk, inbox, now).disk
             second == ingest_latest(first, inbox, now + dt).disk
         IN  /\ second.status = first.status
             /\ second.latest = first.latest
             /\ second.archive = first.archive

\* the canonical fields a metadata payload carries, per the alias table
MetadataFields(upload) == parse_json_weather(JsonLoads(upload.text))

\* C15: after a parsable metadata transfer carrying recognized fields, the
\* weather store holds those fields, normalized through the alias table, and
\* the forecast document's current section holds the same values with the
\* camera channel marked available with a last-update instant.
C15_MetadataReachesWeatherStore ==
    [][\A upload \in MetadataUploads : \A peer \in Peers :
         (/\ FileReceived(upload, peer)
          /\ ParsableMetadata(upload)
          /\ MetadataFields(upload) # EmptyDict)
         => /\ weather_file'.exists
            /\ \A k \in DOMAIN MetadataFields(upload) :
                 /\ k \in DOMAIN weather_file'.data
                 /\ weather_file'.data[k] = MetadataFields(upload)[k]
                 /\ forecast_file'.exists
                 /\ k \in DOMAIN forecast_file'.doc["current"]
                 /\ forecast_file'.doc["current"][k] = MetadataFields(upload)[k]
            /\ forecast_file'.doc["data_sources"]["skywatch"].available
            /\ forecast_file'.doc["data_sources"]["skywatch"].last_update = Iso(now)
      ]_vars

\* the triangular illumination of phase fraction f = MoonAge / LunarMonth:
\* 200 f up to f = 0.5 and 200 (1 - f) after it, rounded to one decimal
TriangularIllumination(days) ==
    LET r == MoonAge(days)
    IN  IF 2 * r <= LunarMonth
        THEN MulDivRound(2000, r, LunarMonth)
        ELSE MulDivRound(2000, LunarMonth - r, LunarMonth)

\* C20: the moon illumination of a published forecast is the triangular
\* function of the phase fraction (0 at new moon, 100 at full moon) and lies
\* in [0, 100].
C20_MoonIlluminationTriangular ==
    outcome = "returned"
    => /\ forecast.astronomy.moon_illumination_pct
            = TriangularIllumination(days_since_new_moon)
       /\ forecast.astronomy.moon_illumination_pct >= 0
       /\ forecast.astronomy.moon_illumination_pct <= Dec(100, 0)

(***************************************************************************)
(* Properties of the normalizers                                           *)
(***************************************************************************)
\* the alias table of each ingestion path, as that path's code has it
RecognizedBy(path, k) ==
    CASE path = "json" -> Lower(k) \in DOMAIN field_map
      [] path = "keyvalue" -> k \in DOMAIN CloudSensorMap
      [] path = "local" -> k \in LocalAliases

CanonicalBy(path, k) ==
    CASE path = "json" -> field_map[Lower(k)]
      [] path = "keyvalue" -> CloudSensorMap[k]
      [] path = "local" ->
           IF k \in {"dewpoint", "dewpoint_c"} THEN "dewpoint_c"
           ELSE CHOOSE c \in DOMAIN StandardAliases :
                    \E i \in 1..Len(StandardAliases[c]) : StandardAliases[c][i] = k

CanonicalFields == FieldMapValues \cup DOMAIN StandardAliases

AllNormalized == \A path \in IngestionPaths : ~readings[path].pending

\* C16: on every ingestion path, a payload of one item whose key is a
\* recognized alias and whose value is numeric yields the canonical field
\* with that value; a key that is no alias yields no canonical field; a
\* non-numeric value under a recognized key is dropped without raising.
C16_AliasNormalization ==
    (AllNormalized /\ Len(payload) = 1)
    => LET k == payload[1][1]
           v == payload[1][2]
       IN  \A path \in IngestionPaths :
             LET r == readings[path]
             IN  /\ (RecognizedBy(path, k) /\ IsNum(v))
                    => /\ ~r.raised
                       /\ CanonicalBy(path, k) \in DOMAIN r.value
                       /\ r.value[CanonicalBy(path, k)] = v
                 /\ ~RecognizedBy(path, k)
                    => /\ ~r.raised
                       /\ DOMAIN r.value \cap CanonicalFields = {}
                 /\ (RecognizedBy(path, k) /\ ~IsNum(v))
                    => /\ ~r.raised
                       /\ CanonicalBy(path, k) \notin DOMAIN r.value

\* C17: when a payload carries two different aliases of one canonical field
\* with different numeric values, the normalized field has the value of the
\* alias that comes first in the payload.
C17_FirstAliasWins ==
    (AllNormalized /\ Len(payload) = 2)
    => \A path \in IngestionPaths :
         LET k1 == payload[1][1]
             k2 == payload[2][1]
             v1 == payload[1][2]
             v2 == payload[2][2]
         IN  (/\ RecognizedBy(path, k1) /\ RecognizedBy(path, k2)
              /\ CanonicalBy(path, k1) = CanonicalBy(path, k2)
              /\ IsNum(v1) /\ IsNum(v2) /\ v1 # v2)
             => /\ ~readings[path].raised
                /\ CanonicalBy(path, k1) \in DOMAIN readings[path].value
                /\ readings[path].value[CanonicalBy(path, k1)] = v1

\* C18: when one mapped field of a payload has a malformed value and another
\* mapped field is well-formed, the reading omits only the malformed field,
\* keeps the other, and the reader does not fail.
C18_MalformedValuesFieldScoped ==
    (AllNormalized /\ Len(payload) = 2)
    => \A path \in IngestionPaths : \A good \in {1, 2} :
         LET bad == 3 - good
             kg  == payload[good][1]
             kb  == payload[bad][1]
         IN  (/\ RecognizedBy(path, kg) /\ RecognizedBy(path, kb)
              /\ CanonicalBy(path, kg) # CanonicalBy(path, kb)
              /\ IsNum(payload[good][2]) /\ ~IsNum(payload[bad][2]))
             => /\ ~readings[path].raised
                /\ CanonicalBy(path, kg) \in DOMAIN readings[path].value
                /\ readings[path].value[CanonicalBy(path, kg)] = payload[good][2]
                /\ CanonicalBy(path, kb) \notin DOMAIN readings[path].value

\* C19: every stored reading that has humidity_pct has it within [0, 100],
\* and every stored reading that has wind_direction_deg has it at least 0
\* and below 360.
C19_StoredReadingRanges ==
    weather_file.exists
    => /\ "humidity_pct" \in DOMAIN weather_file.data
          => /\ NumOf(weather_file.data["humidity_pct"]) >= 0
             /\ NumOf(weather_file.data["humidity_pct"]) <= Dec(100, 0)
       /\ "wind_direction_deg" \in DOMAIN weather_file.data
          => /\ NumOf(weather_file.data["wind_direction_deg"]) >= 0
             /\ NumOf(weather_file.data["wind_direction_deg"]) < Dec(360, 0)

\* C13: a reader that reads the status record, the latest image, a gallery
\* copy or an archive copy while a writer of it runs, or after that writer
\* was interrupted, sees the complete previous content or the complete new
\* content of the file, never an empty or partially written file.
C13_AtomicReplace ==
    seen.target # "none" => seen.content \in {seen.before, seen.after}

\* the items of the payload that a path takes as the given canonical field
ItemsFor(path, field) ==
    {i \in 1..Len(payload) :
        RecognizedBy(path, payload[i][1]) /\ CanonicalBy(path, payload[i][1]) = field}

\* C23: on every ingestion path, a payload that supplies a dewpoint (the
\* value 0 included) yields dewpoint_c equal to the supplied value; a payload
\* that supplies none but supplies temperature and humidity yields the
\* dewpoint_c the Magnus formula gives for those two values.
C23_DewpointResolution ==
    AllNormalized
    => \A path \in IngestionPaths :
         LET r    == readings[path]
             dew  == ItemsFor(path, "dewpoint_c")
             temp == ItemsFor(path, "temperature_c")
             hum  == ItemsFor(path, "humidity_pct")
         IN  /\ (dew # {} /\ \A i \in dew : IsNum(payload[i][2]))
                => /\ ~r.raised
                   /\ "dewpoint_c" \in DOMAIN r.value
                   /\ r.value["dewpoint_c"] \in {payload[i][2] : i \in dew}
             /\ (/\ dew = {}
                 /\ \E i \in temp : IsNum(payload[i][2])
                 /\ \E i \in hum : IsNum(payload[i][2])
                 /\ ~r.raised
                 /\ {"temperature_c", "humidity_pct"} \subseteq DOMAIN r.value)
                => /\ "dewpoint_c" \in DOMAIN r.value
                   /\ r.value["dewpoint_c"] =
                        Num(MagnusDewpoint(NumOf(r.value["temperature_c"]),
                                           NumOf(r.value["humidity_pct"])))

(***************************************************************************)
(* Properties of the HTTP intake                                           *)
(***************************************************************************)

\* the body was parsed and has a recognized field
BodyRecognized(request) ==
    /\ request.content_length = "exact"
    /\ request.utf8
    /\ NormalizedJson(request.body) # EmptyDict

\* the store holds every field the body normalizes to
UpdatedFrom(file, request) ==
    /\ file.exists
    /\ \A k \in DOMAIN NormalizedJson(request.body) :
         k \in DOMAIN file.data /\ file.data[k] = NormalizedJson(request.body)[k]

\* C21: every POST gets exactly one response; a POST to /weather answers 200
\* with ok true exactly when the body was parsed and the store was updated
\* from it, answers 400 with ok false when the body is unparsable or has no
\* recognized field, leaving the store unchanged; a POST to any other path
\* answers 404 and leaves the store unchanged.
C21_HttpIntakeResponses ==
    [][\A request \in Requests :
         Post(request) =>
           /\ response'.sent = 1
           /\ request.path = "/weather"
              => /\ (response'.code = 200 /\ response'.ok)
                    <=> (BodyRecognized(request) /\ UpdatedFrom(weather_file', request))
                 /\ ~BodyRecognized(request)
                    => /\ response'.code = 400
                       /\ ~response'.ok
                       /\ weather_file' = weather_file
           /\ request.path # "/weather"
              => /\ response'.code = 404
                 /\ weather_file' = weather_file]_vars

(***************************************************************************)
(* Properties of the forecast document                                     *)
(***************************************************************************)

\* what the document says of a channel agrees with that channel's fetch
ChannelReported(entry, data) ==
    /\ entry.available = Ok(data)
    /\ ~entry.available => entry.error # None
    /\ entry.available => entry.error = None

\* C22: in every forecast document produced, each channel's data_sources
\* entry has available true exactly when that channel's fetch succeeded; the
\* error is a non-null reason when available is false and null when it is true.
C22_ChannelAvailability ==
    outcome = "returned"
    => /\ ChannelReported(forecast.data_sources.online, online_data)
       /\ ChannelReported(forecast.data_sources.local, local_data)

C22_Witness ==
    /\ outcome = "returned"
    /\ forecast.data_sources.online.available
    /\ forecast.data_sources.online.error = None
    /\ ~forecast.data_sources.local.available
    /\ forecast.data_sources.local.error = Str("Sensor data file not found")

(***************************************************************************)
(* Properties of concurrent transfers                                      *)
(***************************************************************************)

BothDone == \A peer \in TransferPeers : transfers[peer].pc = "done"

\* the archive copy and the gallery copy of a transfer hold its own bytes
OwnCopies(peer) ==
    LET name == transfers[peer].name
    IN  /\ <<UtcDate(now), name>> \in DOMAIN archive
        /\ archive[<<UtcDate(now), name>>] = transfers[peer].size
        /\ name \in DOMAIN gallery
        /\ gallery[name] = transfers[peer].size

\* C24: after two image transfers from independent peers, processed at the
\* same time, have both finished, the archive copy and the gallery copy of
\* each transfer contain exactly the bytes of that transfer's own upload.
C24_NoCrossContamination ==
    (transfers # NoTransfers /\ BothDone)
    => \A peer \in TransferPeers : transfers[peer].overlapped => OwnCopies(peer)

(***************************************************************************)
(* Properties of forecast.json under its two writers                       *)
(***************************************************************************)

ComposedSections == {"observation_windows", "astronomy"}
ComposedChannels == {"online", "local"}

\* C26: once a metadata merge and a compose cycle have both completed, the
\* stored forecast document holds the sections of the document composed
\* last (observation windows, astronomy, data_sources of the online and the
\* local channel): no older document was written over the newer one.
C26_ForecastUpdatesNotLost ==
    (merging.pc = "done" /\ outcome = "returned")
    => /\ forecast_file.exists
       /\ \A k \in ComposedSections :
            /\ k \in DOMAIN forecast_file.doc
            /\ forecast_file.doc[k] = forecast[k]
       /\ \A ch \in ComposedChannels :
            /\ ch \in DOMAIN forecast_file.doc["data_sources"]
            /\ forecast_file.doc["data_sources"][ch] = forecast.data_sources[ch]

(***************************************************************************)
(* Properties of the status record                                         *)
(***************************************************************************)

====
